---- MODULE Spec2Model ----
(***************************************************************************)
(* gh-proxy: the request pipeline of internal/server (serveProxy), the     *)
(* per-key token bucket (rateLimiter.Allow) and the response cache of      *)
(* internal/cache (Get / Put / Cleanup).                                    *)
(*                                                                         *)
(* Strings are sequences of one-character strings, so that TrimSpace,      *)
(* ToLower, Contains and concatenation are computed as the code computes   *)
(* them.  Time is an integer clock; TicksPerSec ticks make one second.     *)
(* A bucket's fractional token count is kept in units of 1/TicksPerSec     *)
(* token, which is exact for every instant of the clock.                   *)
(***************************************************************************)
EXTENDS Integers, Sequences, FiniteSets, TLC

VARIABLES
    now,               \* the clock (time.Now() and the store's now()), in ticks
    api_keys,          \* table api_keys: key_hash -> [disabled, rate_limit_per_sec]
    buckets,           \* rateLimiter.buckets: key hash -> [capacity, tokens, last]
    hist,              \* observation: the Allow calls with perSec > 0, in lock order
    resp,              \* observation: the response written last
    cache,             \* the Cache struct: [maxAge, maxSizeMB]
    cached_responses,  \* table cached_responses: the set of its rows
    nextId,            \* the BIGSERIAL sequence of cached_responses.id
    putLog,            \* observation: the arguments of every Put, in order
    trimmed,           \* observation: the ids Cleanup has deleted
    cfg,               \* config.Config: [MaxProxyBodyBytes]
    reqs,              \* the requests being served: slot -> [pc, q, perSec]
    arrived,           \* the number of requests that have arrived
    refused,           \* observation: the request the key check refused last
    donated_tokens,    \* table donated_tokens: the set of its rows
    token_rate_limits, \* table token_rate_limits: the set of its rows
    pending,           \* the refreshRate goroutines started and not yet run
    sent,              \* observation: the upstream call made last, with its answer
    wHeader,           \* observation: w.Header() of the hit or miss response written last
    request_logs,      \* table request_logs: the set of its rows
    logSeq,            \* the BIGSERIAL sequence of request_logs.id: the last value drawn
    totalReq,          \* Server.totalReq: the counter of served requests
    hub,               \* the wsHub: [pc, clients, broadcast, msg, todo]
    conns              \* the wsClients: connection -> [st, send, closed, readPump, writePump, ...]

limVars == <<api_keys, buckets, hist>>
cacheVars == <<cache, cached_responses, nextId, putLog, trimmed>>
pipeVars == <<cfg, reqs, arrived, refused>>
poolVars == <<donated_tokens, token_rate_limits, pending, sent>>
logVars == <<wHeader, request_logs, logSeq, totalReq>>
hubVars == <<hub, conns>>
vars == <<now, api_keys, buckets, hist, resp, cache, cached_responses, nextId, putLog, trimmed,
          cfg, reqs, arrived, refused, donated_tokens, token_rate_limits, pending, sent,
          wHeader, request_logs, logSeq, totalReq, hub, conns>>

(***************************** bounds **************************************)
TicksPerSec == 2       \* clock resolution
MaxTime == 3           \* the clock stops advancing here
MaxCalls == 5          \* Allow calls recorded in hist
MaxRows == 2           \* rows ever inserted into cached_responses
MaxReqs == 2           \* requests that arrive at the pipeline
MaxInflight == 1       \* requests served at the same time
MaxRemaining == 1      \* the highest remaining count of a snapshot

Min(a, b) == IF a < b THEN a ELSE b
Max(a, b) == IF a > b THEN a ELSE b

(***************************** strings *************************************)
\* strings.TrimSpace: leading and trailing white space removed
IsSpace(c) == c \in {" ", "\t", "\n", "\r"}

RECURSIVE TrimLeft(_)
TrimLeft(s) == IF s = <<>> THEN s
               ELSE IF IsSpace(Head(s)) THEN TrimLeft(Tail(s)) ELSE s

RECURSIVE TrimRight(_)
TrimRight(s) == IF s = <<>> THEN s
                ELSE IF IsSpace(s[Len(s)]) THEN TrimRight(SubSeq(s, 1, Len(s) - 1)) ELSE s

TrimSpace(s) == TrimRight(TrimLeft(s))

parseAPIKey(v) == TrimSpace(v)

\* strings.ToLower on the letters A-Z
UpperChars == <<"A","B","C","D","E","F","G","H","I","J","K","L","M",
                "N","O","P","Q","R","S","T","U","V","W","X","Y","Z">>
LowerChars == <<"a","b","c","d","e","f","g","h","i","j","k","l","m",
                "n","o","p","q","r","s","t","u","v","w","x","y","z">>

LowerChar(c) ==
    IF \E i \in 1..Len(UpperChars) : UpperChars[i] = c
    THEN LowerChars[CHOOSE i \in 1..Len(UpperChars) : UpperChars[i] = c]
    ELSE c

UpperChar(c) ==
    IF \E i \in 1..Len(LowerChars) : LowerChars[i] = c
    THEN UpperChars[CHOOSE i \in 1..Len(LowerChars) : LowerChars[i] = c]
    ELSE c

ToLower(s) == [i \in 1..Len(s) |-> LowerChar(s[i])]

\* strings.Contains
Contains(s, sub) ==
    \E i \in 0..(Len(s) - Len(sub)) : SubSeq(s, i + 1, i + Len(sub)) = sub


\* sha256 followed by hex encoding: injective on the strings of the model, and
\* never equal to its argument
sha256Hex(s) == <<"sha256:">> \o s

(***************************** responses ***********************************)
\* what the client is sent: the status, the value of X-Gh-Proxy-Cache, the
\* headers copied from upstream or from the cache, the bytes handed to Write,
\* and the number of upstream calls made for the request
Response(status, cacheHdr, headers, body, upstream) ==
    [status |-> status, cache |-> cacheHdr, headers |-> headers, body |-> body,
     upstream |-> upstream]

NoHeader == [n \in {} |-> << >>]

\* http.Error(w, msg, status): no cache header, no upstream call
Reject(status) == Response(status, "", NoHeader, << >>, 0)

Slots == 1..MaxInflight
Idle == [pc |-> "idle"]
NoRequest == [key |-> << >>]

(***************************** key store ***********************************)
\* a lookup that never reports a key as disabled
LookupKeyNeverDisabled(keys, h) ==
    [disabled |-> FALSE,
     perSec |-> IF h \in DOMAIN keys THEN keys[h].rate_limit_per_sec ELSE 0]

\* SELECT disabled, rate_limit_per_sec FROM api_keys WHERE key_hash=$1, scanned
\* into zero-valued locals: no row leaves disabled = false, perSec = 0
LookupKey(keys, h) ==
    IF h \in DOMAIN keys
    THEN [disabled |-> keys[h].disabled, perSec |-> keys[h].rate_limit_per_sec]
    ELSE [disabled |-> FALSE, perSec |-> 0]

(***************************** rate limiter ********************************)
\* the refill of Allow: tokens after adding dt * perSec and capping at capacity
RefillNoCap(b, perSec, t) == b.tokens + (t - b.last) * perSec

Refill(b, perSec, t) ==
    LET filled == b.tokens + (t - b.last) * perSec
        cap == b.capacity * TicksPerSec
    IN IF filled > cap THEN cap ELSE filled

\* the bucket Allow works on: the stored one, or a new full one
BucketOf(bk, key, perSec, t) ==
    IF key \in DOMAIN bk THEN bk[key]
    ELSE [capacity |-> perSec, tokens |-> perSec * TicksPerSec, last |-> t]

SetBucket(bk, key, b) == [k \in DOMAIN bk \cup {key} |-> IF k = key THEN b ELSE bk[k]]

\* rateLimiter.Allow under rl.mu: the decision and the bucket map it leaves
AllowNoCharge(bk, key, perSec, t) ==
    IF perSec <= 0 THEN [ok |-> FALSE, buckets |-> bk]
    ELSE LET b == BucketOf(bk, key, perSec, t)
             tk == Refill(b, perSec, t)
         IN [ok |-> tk >= TicksPerSec,
             buckets |-> SetBucket(bk, key, [b EXCEPT !.tokens = tk, !.last = t])]

AllowBucketForAll(bk, key, perSec, t) ==
    LET b == BucketOf(bk, key, perSec, t)
        tk == Refill(b, perSec, t)
    IN IF perSec <= 0
       THEN [ok |-> FALSE, buckets |-> SetBucket(bk, key, [b EXCEPT !.tokens = 0, !.last = t])]
       ELSE IF tk >= TicksPerSec
            THEN [ok |-> TRUE,
                  buckets |-> SetBucket(bk, key, [b EXCEPT !.tokens = tk - TicksPerSec, !.last = t])]
            ELSE [ok |-> FALSE,
                  buckets |-> SetBucket(bk, key, [b EXCEPT !.tokens = tk, !.last = t])]

Allow(bk, key, perSec, t) ==
    IF perSec <= 0 THEN [ok |-> FALSE, buckets |-> bk]
    ELSE LET b == BucketOf(bk, key, perSec, t)
             tk == Refill(b, perSec, t)
         IN IF tk >= TicksPerSec
            THEN [ok |-> TRUE,
                  buckets |-> SetBucket(bk, key, [b EXCEPT !.tokens = tk - TicksPerSec, !.last = t])]
            ELSE [ok |-> FALSE,
                  buckets |-> SetBucket(bk, key, [b EXCEPT !.tokens = tk, !.last = t])]

(***************************** response cache ******************************)
\* a nullable timestamp is the set of its values: SQL NULL is the empty set
NULL == {}
At(t) == {t}

\* cache.New: maxAge = maxAgeSeconds * time.Second
New(maxAgeSeconds, maxSizeMB) ==
    [maxAge |-> maxAgeSeconds * TicksPerSec, maxSizeMB |-> maxSizeMB]

\* cache.hash: sha256 of the body bytes, hex encoded
hash(b) == <<"sha256:">> \o b

\* the WHERE clause of Get
GetMatchesAtExpiry(r, method, url, body, t) ==
    /\ r.method = method
    /\ r.url = url
    /\ r.content_hash = hash(body)
    /\ (r.expires_at = NULL \/ \E e \in r.expires_at : e >= t)

GetMatches(r, method, url, body, t) ==
    /\ r.method = method
    /\ r.url = url
    /\ r.content_hash = hash(body)
    /\ (r.expires_at = NULL \/ \E e \in r.expires_at : e > t)

\* a lookup that returns the matching row of the lowest id
GetRowOldest(rows, method, url, body, t) ==
    {r \in rows : /\ GetMatches(r, method, url, body, t)
                  /\ \A q \in rows : GetMatches(q, method, url, body, t) => q.id >= r.id}

\* ORDER BY id DESC LIMIT 1: the matching row of the highest id, as a set of
\* at most one row
GetRow(rows, method, url, body, t) ==
    {r \in rows : /\ GetMatches(r, method, url, body, t)
                  /\ \A q \in rows : GetMatches(q, method, url, body, t) => q.id <= r.id}

\* Cache.Get: (status, headers, resp, ok); sql.ErrNoRows gives (0, nil, nil, false)
Miss == [status |-> 0, headers |-> << >>, resp |-> << >>, ok |-> FALSE]

Get(rows, method, url, body, t) ==
    LET hit == GetRow(rows, method, url, body, t)
    IN IF hit = {} THEN Miss
       ELSE LET r == CHOOSE r \in hit : TRUE
            IN [status |-> r.status, headers |-> r.resp_headers, resp |-> r.resp_body,
                ok |-> TRUE]

\* the expiry Put computes: now + maxAge when maxAge > 0, else NULL
ExpiresAlwaysNow(c, t) == At(t + c.maxAge)

Expires(c, t) == IF c.maxAge > 0 THEN At(t + c.maxAge) ELSE NULL

\* Cache.Put: the INSERT into cached_responses; id and created_at are the
\* column defaults
PutRow(c, id, method, url, reqBody, status, respHeaders, respBody, t) ==
    [id |-> id, method |-> method, url |-> url, req_body |-> reqBody,
     status |-> status, resp_headers |-> respHeaders, resp_body |-> respBody,
     created_at |-> t, expires_at |-> Expires(c, t), content_hash |-> hash(reqBody)]

\* Cache.Cleanup's DELETE: the n = GREATEST(1, count/10) rows of the lowest
\* created_at; among rows of equal created_at the store picks
Oldest(rows, D) ==
    /\ Cardinality(D) = Min(Cardinality(rows), Max(1, Cardinality(rows) \div 10))
    /\ \A d \in D : \A r \in rows \ D : d.created_at <= r.created_at

\* the rows that can be among the n deleted ones: those with fewer than n
\* rows of a lower created_at
OldestCandidates(rows) ==
    {r \in rows : Cardinality({x \in rows : x.created_at < r.created_at})
                     < Max(1, Cardinality(rows) \div 10)}

(***************************** donated tokens ******************************)
\* a row of donated_tokens; its id stands for the UUID the store generates
TokenRow(id, user, token, revoked, last) ==
    [id |-> id, github_user |-> user, token |-> token, revoked |-> revoked, last_ok_at |-> last]

Login1 == <<"u","1">>
Login2 == <<"u","2">>
Secret1 == <<"s","1">>
Secret2 == <<"s","2">>

\* no upstream call yet
NoCall == [id |-> 0]

\* one credential donated at the start, never used
InitPool ==
    /\ donated_tokens = {TokenRow(1, Login1, Secret1, FALSE, At(0))}
    /\ token_rate_limits = {}
    /\ pending = {}
    /\ sent = NoCall

\* the websocket connections ever made
Conns == {"c1", "c2"}

\* a wsClient before its connection is made
NewClient ==
    [st |-> "none", send |-> << >>, closed |-> FALSE, readPump |-> "none",
     writePump |-> "none", closes |-> 0, dropped |-> FALSE, lateSend |-> FALSE]

\* newWSHub, and go s.hub.run() waiting at its select
InitHub ==
    /\ hub = [pc |-> "select", clients |-> {}, broadcast |-> << >>, msg |-> "", todo |-> {}]
    /\ conns = [c \in Conns |-> NewClient]

\* no response written yet, an empty request log, no request counted
InitLog ==
    /\ wHeader = NoHeader
    /\ request_logs = {}
    /\ logSeq = 0
    /\ totalReq = 0
    /\ InitHub

(***************************** the limiter alone ***************************)
KeyA == <<"a">>        \* a key created with rate_limit 1
KeyC == <<"c">>        \* a key created with rate_limit 2
KeyZ == <<"z">>        \* a key whose row holds rate_limit_per_sec = 0
KeyB == <<"b">>        \* a key that has no row

KeyRow(d, r) == [disabled |-> d, rate_limit_per_sec |-> r]

InitKeys ==
    [h \in {sha256Hex(KeyA), sha256Hex(KeyC), sha256Hex(KeyZ)} |->
        IF h = sha256Hex(KeyA) THEN KeyRow(FALSE, 1)
        ELSE IF h = sha256Hex(KeyC) THEN KeyRow(FALSE, 2)
        ELSE KeyRow(FALSE, 0)]

LimKeys == {KeyA, KeyC, KeyZ, KeyB}

InitLimiter ==
    /\ now = 0
    /\ api_keys = InitKeys
    /\ buckets = << >>
    /\ hist = << >>
    /\ resp = Reject(0)
    /\ InitLog
    /\ cfg = [MaxProxyBodyBytes |-> 0]
    /\ reqs = [r \in Slots |-> Idle]
    /\ arrived = 0
    /\ refused = NoRequest
    /\ InitPool
    /\ cache = New(0, 0)
    /\ cached_responses = {}
    /\ nextId = 1
    /\ putLog = << >>
    /\ trimmed = {}

\* the clock advances by one tick
Tick ==
    /\ now < MaxTime
    /\ now' = now + 1
    /\ UNCHANGED <<limVars, resp, logVars, cacheVars, pipeVars, poolVars, hubVars>>

\* handleDisableAPIKey: UPDATE api_keys SET disabled=true for one row
handleDisableAPIKey(h) ==
    /\ h \in DOMAIN api_keys
    /\ ~api_keys[h].disabled
    /\ api_keys' = [api_keys EXCEPT ![h].disabled = TRUE]
    /\ UNCHANGED <<now, buckets, hist, resp, logVars, cacheVars, pipeVars, poolVars, hubVars>>

\* serveProxy lines 219-227 for one request carrying key k: the lookup of
\* (disabled, perSec), the 403 of a disabled key, and the call of Allow with
\* its 429.  resp is the status written (0: admitted, the request goes on);
\* hist records the calls of Allow with perSec > 0, avail being the token
\* count Allow saw after its refill.
LimiterCall(k) ==
    LET h == sha256Hex(parseAPIKey(k))
        row == LookupKey(api_keys, h)
        res == Allow(buckets, h, row.perSec, now)
    IN IF row.disabled
       THEN /\ resp' = Reject(403)
            /\ UNCHANGED <<now, api_keys, buckets, hist, cacheVars, pipeVars, poolVars, logVars, hubVars>>
       ELSE /\ row.perSec > 0 => Len(hist) < MaxCalls
            /\ buckets' = res.buckets
            /\ resp' = Reject(IF res.ok THEN 0 ELSE 429)
            /\ hist' = IF row.perSec > 0
                       THEN Append(hist, [key |-> h, perSec |-> row.perSec, at |-> now,
                                avail |-> Refill(BucketOf(buckets, h, row.perSec, now),
                                                 row.perSec, now),
                                ok |-> res.ok])
                       ELSE hist
            /\ UNCHANGED <<now, api_keys, cacheVars, pipeVars, poolVars, logVars, hubVars>>

NextLimiter ==
    \/ Tick
    \/ \E h \in DOMAIN api_keys : handleDisableAPIKey(h)
    \/ \E k \in LimKeys : LimiterCall(k)

SpecLimiter == InitLimiter /\ [][NextLimiter]_vars

(***************************** the cache alone *****************************)
\* a Put whose INSERT is lost
PutDropped(rows, c, id, method, url, reqBody, status, respHeaders, respBody, t) == rows

\* Cache.Put: the table after the INSERT
Put(rows, c, id, method, url, reqBody, status, respHeaders, respBody, t) ==
    rows \cup {PutRow(c, id, method, url, reqBody, status, respHeaders, respBody, t)}

\* Cache.Cleanup: nothing without a size limit or at or below it; else the
\* rows D are deleted.  bytes is pg_total_relation_size as the store reports it
SizeLimit(c) == c.maxSizeMB * 1024 * 1024

\* a sweep that deletes already when the table is exactly at the cap
CleanupAtCap(rows, c, bytes, D) ==
    IF c.maxSizeMB <= 0 THEN rows
    ELSE IF bytes < SizeLimit(c) THEN rows
    ELSE rows \ D

Cleanup(rows, c, bytes, D) ==
    IF c.maxSizeMB <= 0 THEN rows
    ELSE IF bytes <= SizeLimit(c) THEN rows
    ELSE rows \ D

ApiBase == <<"h","t","t","p","s",":","/","/","a","p","i",".","g","i","t","h","u","b",".","c","o","m","/">>
PathUser == <<"u","s","e","r">>
HCacheControl == <<"C","a","c","h","e","-","C","o","n","t","r","o","l">>
VMaxAge == <<"m","a","x","-","a","g","e","=","6","0">>

\* json.Marshal of an http.Header, kept by the store as JSONB
MarshalHeader(h) == <<"json", h>>

Url1 == ApiBase \o PathUser
Url2 == ApiBase \o PathUser \o <<"?", "a">>

\* the requests whose responses the pipeline caches, and the responses it stores
CacheReqs ==
    { [method |-> "GET", url |-> Url1, body |-> << >>],
      [method |-> "HEAD", url |-> Url1, body |-> << >>],
      [method |-> "GET", url |-> Url2, body |-> << >>],
      [method |-> "GET", url |-> Url1, body |-> <<"x">>] }

CacheVals ==
    { [status |-> 200, headers |-> MarshalHeader(<< >>), resp |-> <<"1">>],
      [status |-> 200, headers |-> MarshalHeader([n \in {HCacheControl} |-> <<VMaxAge>>]),
       resp |-> <<"2">>] }

InitCache ==
    /\ now = 0
    /\ api_keys = << >>
    /\ buckets = << >>
    /\ hist = << >>
    /\ resp = Reject(0)
    /\ InitLog
    /\ cfg = [MaxProxyBodyBytes |-> 0]
    /\ reqs = [r \in Slots |-> Idle]
    /\ arrived = 0
    /\ refused = NoRequest
    /\ InitPool
    /\ \E secs \in {0, 1} : \E mb \in {0, 1} : cache = New(secs, mb)
    /\ cached_responses = {}
    /\ nextId = 1
    /\ putLog = << >>
    /\ trimmed = {}

CachePut(q, v) ==
    /\ nextId <= MaxRows
    /\ cached_responses' = Put(cached_responses, cache, nextId, q.method, q.url, q.body,
                               v.status, v.headers, v.resp, now)
    /\ nextId' = nextId + 1
    /\ putLog' = Append(putLog, [id |-> nextId, method |-> q.method, url |-> q.url,
                                 body |-> q.body, status |-> v.status,
                                 headers |-> v.headers, resp |-> v.resp, at |-> now])
    /\ UNCHANGED <<now, limVars, resp, logVars, cache, trimmed, pipeVars, poolVars, hubVars>>

\* one pass of cacheJanitor
CacheCleanup ==
    \E bytes \in {SizeLimit(cache), SizeLimit(cache) + 1} :
    \E D \in SUBSET OldestCandidates(cached_responses) :
        /\ Oldest(cached_responses, D)
        /\ cached_responses' = Cleanup(cached_responses, cache, bytes, D)
        /\ trimmed' = trimmed \cup {r.id : r \in cached_responses \ cached_responses'}
        /\ UNCHANGED <<now, limVars, resp, logVars, cache, nextId, putLog, pipeVars, poolVars, hubVars>>

CacheTick ==
    /\ now < MaxTime
    /\ now' = now + 1
    /\ UNCHANGED <<limVars, resp, logVars, cacheVars, pipeVars, poolVars, hubVars>>

NextCache ==
    \/ CacheTick
    \/ CacheCleanup
    \/ \E q \in CacheReqs : \E v \in CacheVals : CachePut(q, v)

SpecCache == InitCache /\ [][NextCache]_vars

\* cacheJanitor sweeps once a minute for as long as the process runs, and the
\* clock goes on
SpecSweep == SpecCache /\ WF_vars(CacheCleanup) /\ WF_vars(CacheTick)

\* the cache after n puts of distinct requests, eight to a tick
EvictSizes == {0, 1, 9, 10, 19, 20, 21}
EvictUrl(i) == Url1 \o <<"?">> \o [k \in 1..i |-> "a"]
EvictRow(c, i) ==
    PutRow(c, i, "GET", EvictUrl(i), << >>, 200, MarshalHeader(NoHeader), <<"1">>, i \div 8)

InitEvict ==
    \E n \in EvictSizes :
        /\ now = n \div 8
        /\ api_keys = << >>
        /\ buckets = << >>
        /\ hist = << >>
        /\ resp = Reject(0)
        /\ InitLog
        /\ cfg = [MaxProxyBodyBytes |-> 0]
        /\ reqs = [r \in Slots |-> Idle]
        /\ arrived = 0
        /\ refused = NoRequest
        /\ InitPool
        /\ \E secs \in {0, 1} : \E mb \in {0, 1} : cache = New(secs, mb)
        /\ cached_responses = {EvictRow(cache, i) : i \in 1..n}
        /\ nextId = n + 1
        /\ putLog = [i \in 1..n |->
                        [id |-> i, method |-> "GET", url |-> EvictUrl(i), body |-> << >>,
                         status |-> 200, headers |-> MarshalHeader(NoHeader),
                         resp |-> <<"1">>, at |-> i \div 8]]
        /\ trimmed = {}

SpecEvict == InitEvict /\ [][NextCache]_vars

(***************************** credential pool *****************************)
SlashGraphql == <<"/","g","r","a","p","h","q","l">>
SlashSearchCode == <<"/","s","e","a","r","c","h","/","c","o","d","e">>
SlashSearch == <<"/","s","e","a","r","c","h","/">>
BadCredentials == <<"b","a","d"," ","c","r","e","d","e","n","t","i","a","l","s">>

\* a classification that looks for /search/ before /search/code
categoryForSearchFirst(url) ==
    IF Contains(url, SlashGraphql) THEN "graphql"
    ELSE IF Contains(url, SlashSearch) THEN "search"
    ELSE IF Contains(url, SlashSearchCode) THEN "code_search"
    ELSE "core"

\* client.go's categoryFor
categoryFor(url) ==
    IF Contains(url, SlashGraphql) THEN "graphql"
    ELSE IF Contains(url, SlashSearchCode) THEN "code_search"
    ELSE IF Contains(url, SlashSearch) THEN "search"
    ELSE "core"

\* the instants of the store and of the upstream are ticks from the epoch on;
\* Go's zero time.Time lies before all of them
Epoch == 0
ZeroTime == 0 - 1

\* COALESCE(last_ok_at, 'epoch')
LastOk(row) == IF row.last_ok_at = NULL THEN Epoch ELSE CHOOSE t \in row.last_ok_at : TRUE

\* the sequences over the set S in which every element occurs once
Orders(S) ==
    {f \in [1..Cardinality(S) -> S] : \A i, j \in 1..Cardinality(S) : f[i] = f[j] => i = j}

\* SELECT ... FROM donated_tokens WHERE revoked=false ORDER BY
\* COALESCE(last_ok_at,'epoch') ASC: the orders the store may return the rows in
QueryTokens(tokens) ==
    {f \in Orders({row \in tokens : ~row.revoked}) :
        \A i, j \in DOMAIN f : i < j => LastOk(f[i]) <= LastOk(f[j])}

\* SELECT remaining, reset FROM token_rate_limits WHERE token_id=$1 AND
\* category=$2, scanned into zero-valued locals
Snapshot(limits, id, category) ==
    IF \E s \in limits : s.token_id = id /\ s.category = category
    THEN LET s == CHOOSE s \in limits : s.token_id = id /\ s.category = category
         IN [remaining |-> s.remaining, reset |-> s.reset]
    ELSE [remaining |-> 0, reset |-> ZeroTime]

\* the slice toks that chooseToken builds from the rows
Toks(list, limits, category) ==
    [i \in DOMAIN list |->
        [id |-> list[i].id, token |-> list[i].token,
         remaining |-> Snapshot(limits, list[i].id, category).remaining,
         reset |-> Snapshot(limits, list[i].id, category).reset]]

\* the less function that ignores the reset instants
LessByRemaining(a, b) == a.remaining > b.remaining

\* the less function that treats a missing snapshot as the last of all
LessMissingLast(a, b) ==
    IF a.remaining = b.remaining
    THEN (a.reset # ZeroTime /\ b.reset = ZeroTime)
         \/ (a.reset # ZeroTime /\ b.reset # ZeroTime /\ a.reset < b.reset)
    ELSE a.remaining > b.remaining

\* the less function of chooseToken's sort.Slice
Less(a, b) ==
    IF a.remaining = b.remaining THEN a.reset < b.reset ELSE a.remaining > b.remaining

\* sort.Slice on a slice of fewer than 12 elements: insertion sort
RECURSIVE InsertSorted(_, _)
InsertSorted(s, x) ==
    IF s = << >> THEN <<x>>
    ELSE IF Less(x, s[Len(s)]) THEN Append(InsertSorted(SubSeq(s, 1, Len(s) - 1), x), s[Len(s)])
    ELSE Append(s, x)

RECURSIVE SortSlice(_)
SortSlice(s) ==
    IF s = << >> THEN s
    ELSE InsertSorted(SortSlice(SubSeq(s, 1, Len(s) - 1)), s[Len(s)])

\* chooseToken: the first of the sorted slice, or the error "no donated tokens"
NoCredential == [id |-> 0, token |-> << >>, remaining |-> 0, reset |-> ZeroTime]

chooseToken(list, limits, category) ==
    IF list = << >> THEN NoCredential
    ELSE SortSlice(Toks(list, limits, category))[1]

(***************************** the pipeline ********************************)
NoCache == <<"n","o","-","c","a","c","h","e">>
NoStore == <<"n","o","-","s","t","o","r","e">>
VNoStore == <<"n","o","-","s","t","o","r","e">>
VNoCacheMixed == <<"P","r","i","v","a","t","e",","," ","N","o","-","C","a","c","h","e">>

\* isHopByHop, isBlockedResponseHeader: by the lower-cased name
HopByHopNames ==
    {<<"c","o","n","n","e","c","t","i","o","n">>,
     <<"k","e","e","p","-","a","l","i","v","e">>,
     <<"p","r","o","x","y","-","a","u","t","h","e","n","t","i","c","a","t","e">>,
     <<"p","r","o","x","y","-","a","u","t","h","o","r","i","z","a","t","i","o","n">>,
     <<"t","e">>,
     <<"t","r","a","i","l","e","r">>,
     <<"t","r","a","n","s","f","e","r","-","e","n","c","o","d","i","n","g">>,
     <<"u","p","g","r","a","d","e">>}

BlockedNames ==
    {<<"s","e","t","-","c","o","o","k","i","e">>,
     <<"s","t","r","i","c","t","-","t","r","a","n","s","p","o","r","t","-","s","e","c","u","r","i","t","y">>,
     <<"p","u","b","l","i","c","-","k","e","y","-","p","i","n","s">>,
     <<"c","o","n","t","e","n","t","-","l","e","n","g","t","h">>}

\* a filter that compares the name as it is written
isBlockedCaseSensitive(h) == h \in BlockedNames

isHopByHop(h) == ToLower(h) \in HopByHopNames
isBlockedResponseHeader(h) == ToLower(h) \in BlockedNames

\* wHeaderCopy into the empty header of a response
wHeaderCopy(src) ==
    [k \in {n \in DOMAIN src : ~isHopByHop(n) /\ ~isBlockedResponseHeader(n)} |-> src[k]]

\* wHeaderFromJSON: json.Unmarshal, then the same filter
UnmarshalHeader(j) == j[2]
wHeaderFromJSON(j) == wHeaderCopy(UnmarshalHeader(j))

\* handleProxyREST: the upstream target of /gh/{rest}
Target(rest) == ApiBase \o rest

targetWithQuery(target, raw) ==
    IF raw = << >> THEN target
    ELSE IF Contains(target, <<"?">>) THEN target \o <<"&">> \o raw
    ELSE target \o <<"?">> \o raw

\* cacheable := r.Method == GET || r.Method == HEAD
CacheableAny(method) == TRUE

Cacheable(method) == method = "GET" \/ method = "HEAD"

\* http.Header.Get: the first value of the header, "" without one
HeaderGet(h, name) ==
    IF name \in DOMAIN h /\ Len(h[name]) > 0 THEN h[name][1] ELSE << >>

\* the condition under which serveProxy calls cache.Put
ShouldStoreCaseSensitive(method, status, hdr) ==
    LET cc == HeaderGet(hdr, HCacheControl)
    IN Cacheable(method) /\ status = 200
       /\ ~Contains(cc, NoCache) /\ ~Contains(cc, NoStore)

\* a store condition that does not look at the status
ShouldStoreAnyStatus(method, status, hdr) ==
    LET cc == ToLower(HeaderGet(hdr, HCacheControl))
    IN Cacheable(method) /\ ~Contains(cc, NoCache) /\ ~Contains(cc, NoStore)

ShouldStore(method, status, hdr) ==
    LET cc == ToLower(HeaderGet(hdr, HCacheControl))
    IN Cacheable(method) /\ status = 200
       /\ ~Contains(cc, NoCache) /\ ~Contains(cc, NoStore)

\* io.ReadAll of http.MaxBytesReader: at most MaxProxyBodyBytes bytes are
\* read, the read error is dropped
ReadBody(c, body) ==
    IF c.MaxProxyBodyBytes > 0 /\ Len(body) > c.MaxProxyBodyBytes
    THEN SubSeq(body, 1, c.MaxProxyBodyBytes)
    ELSE body

\* a body bound that refuses a body of exactly the bound
TooLargeAtCap(c, contentLength) ==
    contentLength > 0 /\ c.MaxProxyBodyBytes > 0 /\ contentLength >= c.MaxProxyBodyBytes

\* a body bound that refuses nothing
TooLargeNever(c, contentLength) == FALSE

\* serveProxy's check of the declared length
TooLarge(c, contentLength) ==
    contentLength > 0 /\ c.MaxProxyBodyBytes > 0 /\ contentLength > c.MaxProxyBodyBytes

apiKeyHash(q) == sha256Hex(parseAPIKey(q.key))
fullTarget(q) == targetWithQuery(Target(q.rest), q.rawQuery)

\* the end of a request: its slot is free again
Done(r) == reqs' = [reqs EXCEPT ![r] = Idle]
Goto(r, pc) == reqs' = [reqs EXCEPT ![r].pc = pc]

\* serveProxy lines 219-226: a request arrives; 401 without a key, the key
\* lookup, 403 for a disabled key
ServeAuth(r, q) ==
    /\ reqs[r].pc = "idle"
    /\ arrived < MaxReqs
    /\ arrived' = arrived + 1
    /\ LET row == LookupKey(api_keys, apiKeyHash(q))
       IN IF parseAPIKey(q.key) = << >>
          THEN resp' = Reject(401) /\ wHeader' = NoHeader /\ refused' = q /\ UNCHANGED reqs
          ELSE IF row.disabled
          THEN resp' = Reject(403) /\ wHeader' = NoHeader /\ refused' = q /\ UNCHANGED reqs
          ELSE /\ reqs' = [reqs EXCEPT ![r] = [pc |-> "limit", q |-> q, perSec |-> row.perSec]]
               /\ UNCHANGED <<resp, wHeader, refused>>
    /\ UNCHANGED <<now, limVars, cacheVars, cfg, poolVars, request_logs, logSeq, totalReq, hubVars>>

\* serveProxy line 227: Allow, 429 when it denies
ServeLimit(r) ==
    /\ reqs[r].pc = "limit"
    /\ LET res == Allow(buckets, apiKeyHash(reqs[r].q), reqs[r].perSec, now)
       IN /\ buckets' = res.buckets
          /\ IF res.ok
             THEN Goto(r, "lookup") /\ UNCHANGED <<resp, wHeader>>
             ELSE Done(r) /\ resp' = Reject(429) /\ wHeader' = NoHeader
    /\ UNCHANGED <<now, api_keys, hist, cacheVars, cfg, arrived, refused, poolVars,
                   request_logs, logSeq, totalReq, hubVars>>

\* the headers serveProxy adds to a response; http.Header keeps every name in
\* its canonical form, that of the names an upstream response arrives with
XGhProxyCache == <<"X","-","G","h","-","P","r","o","x","y","-","C","a","c","h","e">>
XGhProxyCategory ==
    <<"X","-","G","h","-","P","r","o","x","y","-","C","a","t","e","g","o","r","y">>
XGhProxyDonor == <<"X","-","G","h","-","P","r","o","x","y","-","D","o","n","o","r">>
VHit == <<"h","i","t">>
VMiss == <<"m","i","s","s">>

\* server.go's ghCategory
ghCategory(u) ==
    IF Contains(u, <<"/","g","r","a","p","h","q","l">>) THEN "graphql"
    ELSE IF Contains(u, <<"/","s","e","a","r","c","h","/","c","o","d","e">>) THEN "code_search"
    ELSE IF Contains(u, <<"/","s","e","a","r","c","h","/">>) THEN "search"
    ELSE "core"

\* the characters of a category name, as a header value
CategoryValue(c) ==
    CASE c = "graphql" -> <<"g","r","a","p","h","q","l">>
      [] c = "code_search" -> <<"c","o","d","e","_","s","e","a","r","c","h">>
      [] c = "search" -> <<"s","e","a","r","c","h">>
      [] OTHER -> <<"c","o","r","e">>

\* http.Header.Add, which appends, in the place of Set
HeaderAdd(h, name, value) ==
    [k \in DOMAIN h \cup {name} |->
        IF k = name THEN (IF name \in DOMAIN h THEN Append(h[name], value) ELSE <<value>>)
        ELSE h[k]]

\* http.Header.Set: the header has the one value afterwards
HeaderSet(h, name, value) ==
    [k \in DOMAIN h \cup {name} |-> IF k = name THEN <<value>> ELSE h[k]]

\* SELECT github_user FROM donated_tokens WHERE id::text=$1, scanned into a
\* string that stays "" without a row
GithubUser(tokens, id) ==
    IF \E row \in tokens : row.id = id
    THEN (CHOOSE row \in tokens : row.id = id).github_user
    ELSE << >>

\* serveProxy lines 244-249: w.Header() of a hit.  X-Gh-Proxy-Client is made
\* of columns of api_keys that are not kept here and is left out.
HitHeader(hdrJSON, target) ==
    HeaderSet(HeaderSet(wHeaderFromJSON(hdrJSON), XGhProxyCache, VHit),
              XGhProxyCategory, CategoryValue(ghCategory(target)))

\* serveProxy lines 269-278: w.Header() of a miss, user being the login found
\* for usedToken
MissHeader(hdr, target, user) ==
    LET h == HeaderSet(HeaderSet(wHeaderCopy(hdr), XGhProxyCache, VMiss),
                       XGhProxyCategory, CategoryValue(ghCategory(target)))
    IN IF user # << >> THEN HeaderSet(h, XGhProxyDonor, user) ELSE h

\* r.URL.Path of a request routed to /gh/{rest}
URLPath(q) == <<"/","g","h","/">> \o q.rest

\* logRequest's INSERT INTO request_logs
LogRow(id, apiKey, method, path, status, hit) ==
    [id |-> id, api_key |-> apiKey, method |-> method, path |-> path, status |-> status,
     cache_hit |-> hit]

\* afterRequest: totalReq and the row logRequest inserts; cacheHits and
\* last_used_at are not kept, the broadcasts are the hub's Emit
afterRequest(apiKey, method, path, status, hit) ==
    /\ totalReq' = totalReq + 1
    /\ logSeq' = logSeq + 1
    /\ request_logs' = request_logs \cup {LogRow(logSeq + 1, apiKey, method, path, status, hit)}

\* serveProxy lines 229-255: the body bound with its 413, the read of the
\* body, and for a cacheable request the cache lookup and the hit response
ServeLookup(r) ==
    /\ reqs[r].pc = "lookup"
    /\ LET q == reqs[r].q
           g == Get(cached_responses, q.method, fullTarget(q), ReadBody(cfg, q.body), now)
       IN IF TooLarge(cfg, q.contentLength)
          THEN /\ Done(r) /\ resp' = Reject(413) /\ wHeader' = NoHeader
               /\ UNCHANGED <<request_logs, logSeq, totalReq>>
          ELSE IF Cacheable(q.method) /\ g.ok
          THEN /\ Done(r)
               /\ resp' = Response(g.status, "hit", wHeaderFromJSON(g.headers), g.resp, 0)
               /\ wHeader' = HitHeader(g.headers, fullTarget(q))
               /\ afterRequest(apiKeyHash(q), q.method, URLPath(q), g.status, TRUE)
          ELSE Goto(r, "fetch") /\ UNCHANGED <<resp, logVars>>
    /\ UNCHANGED <<now, limVars, cacheVars, cfg, arrived, refused, poolVars, hubVars>>

\* what an upstream call yields: a status, headers and a body, or a transport
\* error; and what gh.Do returns without a call when no credential is usable
Answer(status, headers, body) ==
    [status |-> status, headers |-> headers, body |-> body, calls |-> 1]
NoToken == [status |-> 0, headers |-> NoHeader, body |-> << >>, calls |-> 0]
TransportError == [status |-> 0, headers |-> NoHeader, body |-> << >>, calls |-> 1]

\* the message of a JSON error body {"message":"..."}: "" for any other body
JsonOpen == "{\"message\":\""
JsonClose == "\"}"
JsonError(msg) == <<JsonOpen>> \o msg \o <<JsonClose>>
JsonMessage(b) ==
    IF Len(b) >= 2 /\ b[1] = JsonOpen /\ b[Len(b)] = JsonClose
    THEN SubSeq(b, 2, Len(b) - 1)
    ELSE << >>

\* Client.Do's shouldRevoke
shouldRevokeOn401Only(status, b) == status = 401

shouldRevokeAny403(status, b) == status = 401 \/ status = 403

shouldRevoke(status, b) ==
    \/ status = 401
    \/ status = 403 /\ Contains(ToLower(JsonMessage(b)), BadCredentials)

\* Client.Do with the rows in the order list and the upstream outcome o: what
\* it returns (status, headers, body, usedToken), the number of upstream calls
\* it made, the credential it sent, and whether it marked the credential
\* revoked or started refreshRate for it
Do(list, limits, method, url, body, o) ==
    LET ch == chooseToken(list, limits, categoryFor(url))
    IN IF list = << >>
       THEN [status |-> 0, headers |-> NoHeader, body |-> << >>, calls |-> 0,
             usedToken |-> 0, id |-> 0, token |-> << >>, revoke |-> FALSE, refresh |-> FALSE]
       ELSE IF o.status = 0
       THEN [status |-> 0, headers |-> NoHeader, body |-> << >>, calls |-> 1,
             usedToken |-> 0, id |-> ch.id, token |-> ch.token, revoke |-> FALSE,
             refresh |-> FALSE]
       ELSE [status |-> o.status, headers |-> o.headers, body |-> o.body, calls |-> 1,
             usedToken |-> ch.id, id |-> ch.id, token |-> ch.token,
             revoke |-> shouldRevoke(o.status, o.body),
             refresh |-> ~shouldRevoke(o.status, o.body)]

\* an UPDATE that matches no row
RevokeNone(tokens, id) == tokens

\* UPDATE donated_tokens SET revoked=true WHERE id=$1
Revoke(tokens, id) ==
    {IF row.id = id THEN [row EXCEPT !.revoked = TRUE] ELSE row : row \in tokens}

\* the effects of a call of Do that returned d on the pool, and its record
DoEffects(d, method, url, body) ==
    /\ donated_tokens' = IF d.revoke THEN Revoke(donated_tokens, d.id) ELSE donated_tokens
    /\ pending' = IF d.refresh THEN pending \cup {[id |-> d.id, token |-> d.token]} ELSE pending
    /\ sent' = IF d.calls > 0
               THEN [id |-> d.id, token |-> d.token, method |-> method, url |-> url,
                     body |-> body, status |-> d.status, reply |-> d.body]
               ELSE sent

\* a miss response that turns an error of cache.Put into a 500
MissResponsePutFatal(d, putErr) ==
    IF putErr THEN Reject(500)
    ELSE IF d.status = 0 THEN Response(0, "", NoHeader, << >>, d.calls)
    ELSE Response(d.status, "miss", wHeaderCopy(d.headers), d.body, d.calls)

\* serveProxy lines 269-280: what is written for what gh.Do returned; the
\* error of cache.Put, putErr, was dropped at line 265
MissResponse(d, putErr) ==
    IF d.status = 0 THEN Response(0, "", NoHeader, << >>, d.calls)
    ELSE Response(d.status, "miss", wHeaderCopy(d.headers), d.body, d.calls)

\* serveProxy lines 262-283 for what gh.Do returned, d: the cache write, the
\* miss response and the effects of Do, the INSERT of cache.Put failing when
\* putErr.  A status of 0 makes WriteHeader panic: the connection is closed,
\* the client is sent nothing and afterRequest is not reached.
ServeFetchAnswer(r, d, putErr) ==
    LET q == reqs[r].q
        body == ReadBody(cfg, q.body)
    IN /\ IF ShouldStore(q.method, d.status, d.headers) /\ ~putErr
          THEN /\ nextId <= MaxRows
               /\ cached_responses' = Put(cached_responses, cache, nextId, q.method,
                                          fullTarget(q), body, d.status,
                                          MarshalHeader(d.headers), d.body, now)
               /\ nextId' = nextId + 1
               /\ putLog' = Append(putLog, [id |-> nextId, method |-> q.method,
                                url |-> fullTarget(q), body |-> body, status |-> d.status,
                                headers |-> MarshalHeader(d.headers), resp |-> d.body,
                                at |-> now])
          ELSE UNCHANGED <<cached_responses, nextId, putLog>>
       /\ resp' = MissResponse(d, putErr /\ ShouldStore(q.method, d.status, d.headers))
       /\ DoEffects(d, q.method, fullTarget(q), body)
       /\ IF d.status = 0
          THEN wHeader' = NoHeader /\ UNCHANGED <<request_logs, logSeq, totalReq>>
          ELSE /\ wHeader' = MissHeader(d.headers, fullTarget(q),
                                        GithubUser(donated_tokens', d.usedToken))
               /\ afterRequest(apiKeyHash(q), q.method, URLPath(q), d.status, FALSE)

\* serveProxy lines 258-283: the upstream call, the cache write and the miss
\* response, the call of gh.Do taken as one step
ServeFetchWith(r, o, putErr) ==
    /\ reqs[r].pc = "fetch"
    /\ \E list \in QueryTokens(donated_tokens) :
       LET q == reqs[r].q
       IN \E d \in {Do(list, token_rate_limits, q.method, fullTarget(q),
                       ReadBody(cfg, q.body), o)} :
             ServeFetchAnswer(r, d, putErr)
    /\ Done(r)
    /\ UNCHANGED <<now, limVars, cache, trimmed, cfg, arrived, refused, token_rate_limits, hubVars>>

ServeFetch(r, o) == ServeFetchWith(r, o, FALSE)

\* serveProxy lines 258-283 when the INSERT of cache.Put fails
ServeFetchPutFails(r, o) == ServeFetchWith(r, o, TRUE)

\* serveProxy lines 219-226 when the query on api_keys fails: the error of
\* Scan is dropped, disabled and perSec keep their zero values
ServeAuthOutage(r, q) ==
    /\ reqs[r].pc = "idle"
    /\ arrived < MaxReqs
    /\ arrived' = arrived + 1
    /\ IF parseAPIKey(q.key) = << >>
       THEN resp' = Reject(401) /\ wHeader' = NoHeader /\ refused' = q /\ UNCHANGED reqs
       ELSE /\ reqs' = [reqs EXCEPT ![r] = [pc |-> "limit", q |-> q, perSec |-> 0]]
            /\ UNCHANGED <<resp, wHeader, refused>>
    /\ UNCHANGED <<now, limVars, cacheVars, cfg, poolVars, request_logs, logSeq, totalReq, hubVars>>

\* serveProxy lines 229-255 when the query of cache.Get fails: err is not nil,
\* the request goes on as a miss
ServeLookupOutage(r) ==
    /\ reqs[r].pc = "lookup"
    /\ IF TooLarge(cfg, reqs[r].q.contentLength)
       THEN Done(r) /\ resp' = Reject(413) /\ wHeader' = NoHeader
       ELSE Goto(r, "fetch") /\ UNCHANGED <<resp, wHeader>>
    /\ UNCHANGED <<now, limVars, cacheVars, cfg, arrived, refused, poolVars,
                   request_logs, logSeq, totalReq, hubVars>>

\* serveProxy lines 258-283 when the query of chooseToken fails: Do returns
\* status 0 without an upstream call, and WriteHeader(0) panics
ServeFetchOutage(r) ==
    /\ reqs[r].pc = "fetch"
    /\ resp' = Response(0, "", NoHeader, << >>, 0)
    /\ wHeader' = NoHeader
    /\ Done(r)
    /\ UNCHANGED <<now, limVars, cacheVars, cfg, arrived, refused, poolVars,
                   request_logs, logSeq, totalReq, hubVars>>

KeyCPadded == <<" ">> \o KeyC \o <<" ">>

\* the state after New and migrate, with the rows of the keys K issued
InitPipeline(K) ==
    /\ now = 0
    /\ api_keys = [h \in {sha256Hex(k) : k \in K} |-> InitKeys[h]]
    /\ buckets = << >>
    /\ hist = << >>
    /\ resp = Reject(0)
    /\ InitLog
    /\ \E secs \in {0, 1} : cache = New(secs, 1)
    /\ cached_responses = {}
    /\ nextId = 1
    /\ putLog = << >>
    /\ trimmed = {}
    /\ cfg = [MaxProxyBodyBytes |-> 2]
    /\ reqs = [r \in Slots |-> Idle]
    /\ arrived = 0
    /\ refused = NoRequest
    /\ InitPool

\* what happens around the requests: the clock and the janitor
Around == Tick \/ CacheCleanup

\* the pipeline serving, on the goroutines S, requests drawn from Q with
\* upstream answers drawn from O
ServeOn(S, Q, O) ==
    \E r \in S :
        \/ \E q \in Q : ServeAuth(r, q)
        \/ ServeLimit(r)
        \/ ServeLookup(r)
        \/ \E o \in O : ServeFetch(r, o)

Serve(Q, O) == ServeOn(Slots, Q, O)

Request(key, method, rest, rawQuery, body) ==
    [key |-> key, method |-> method, rest |-> rest, rawQuery |-> rawQuery,
     body |-> body, contentLength |-> Len(body)]

CC(v) == [n \in {HCacheControl} |-> <<v>>]

\* repeated reads: GET and HEAD of one URL with a query, with a valid key,
\* upstream 200
ReadRequests ==
    {Request(KeyCPadded, m, PathUser, <<"a">>, << >>) : m \in {"GET", "HEAD"}}
ReadAnswers == {Answer(200, NoHeader, <<"1">>), Answer(200, CC(VMaxAge), <<"2">>)}

Next == Around \/ Serve(ReadRequests, ReadAnswers)

Spec == InitPipeline({KeyC}) /\ [][Next]_vars

\* reads and writes against every kind of upstream answer
PathGraphql == <<"g","r","a","p","h","q","l">>
StoreRequests ==
    {Request(KeyCPadded, "GET", PathUser, << >>, << >>),
     Request(KeyCPadded, "POST", PathGraphql, << >>, <<"q">>)}
StoreAnswers ==
    {Answer(200, NoHeader, <<"1">>), Answer(200, CC(VNoStore), <<"2">>),
     Answer(200, CC(VNoCacheMixed), <<"3">>), Answer(404, NoHeader, <<"4">>),
     TransportError}

NextStore == Around \/ Serve(StoreRequests, StoreAnswers)

SpecStore == InitPipeline({KeyC}) /\ [][NextStore]_vars

\* requests with every kind of key: none, blank, issued, never issued, and
\* issued with a stored rate of 0; an admin disabling keys
AuthRequests ==
    {Request(k, "GET", PathUser, << >>, << >>) : k \in {<< >>, <<" ">>, KeyCPadded, KeyB, KeyZ}}
AuthAnswers == {Answer(200, NoHeader, <<"1">>)}

NextAuth ==
    \/ Around
    \/ \E h \in DOMAIN api_keys : handleDisableAPIKey(h)
    \/ Serve(AuthRequests, AuthAnswers)

SpecAuth == InitPipeline({KeyC, KeyZ}) /\ [][NextAuth]_vars

\* a request sent with Transfer-Encoding: chunked: r.ContentLength is -1
Chunked(q) == [q EXCEPT !.contentLength = 0 - 1]

\* bodies at the bound of two bytes and beyond it
BodyAtCap == <<"x","y">>
BodyOverCap == <<"x","y","z">>

\* the pipeline with what it refuses itself: requests without a key, with a
\* key of rate 1, with a declared body beyond the bound; an admin disabling
\* the key
RejectRequests ==
    {Request(<< >>, "GET", PathUser, << >>, << >>),
     Request(KeyA, "GET", PathUser, << >>, << >>),
     Request(KeyA, "GET", PathUser, << >>, BodyOverCap)}

NextReject ==
    \/ Around
    \/ \E h \in DOMAIN api_keys : handleDisableAPIKey(h)
    \/ Serve(RejectRequests, AuthAnswers)

SpecReject == InitPipeline({KeyA}) /\ [][NextReject]_vars

\* the pipeline with bodies at the bound and beyond it, declared and chunked
BodyRequests ==
    {Request(KeyCPadded, "POST", PathGraphql, << >>, BodyAtCap),
     Request(KeyCPadded, "POST", PathGraphql, << >>, BodyOverCap),
     Chunked(Request(KeyCPadded, "POST", PathGraphql, << >>, BodyOverCap)),
     Chunked(Request(KeyCPadded, "GET", PathUser, << >>, BodyOverCap)),
     Request(KeyCPadded, "GET", PathUser, << >>, BodyAtCap)}

NextBody == Around \/ Serve(BodyRequests, AuthAnswers)

SpecBody == InitPipeline({KeyC}) /\ [][NextBody]_vars

\* the form in which net/http hands over the name of a response header: the
\* first letter and every letter after a hyphen in upper case, the rest in
\* lower case
CanonicalKey(k) ==
    [i \in 1..Len(k) |-> IF i = 1 \/ k[i - 1] = "-" THEN UpperChar(k[i]) ELSE LowerChar(k[i])]

HEtag == <<"E","t","a","g">>

\* an upstream response header with every name the filters know and one other
HdrAllStripped ==
    [n \in {CanonicalKey(k) : k \in HopByHopNames \cup BlockedNames} \cup {HEtag} |-> <<<<"v">>>>]

\* an upstream response header that carries the proxy's own names
HdrProxyNames ==
    [n \in {XGhProxyCache, XGhProxyDonor, CanonicalKey(<<"s","e","t","-","c","o","o","k","i","e">>)}
        |-> IF n = XGhProxyCache THEN <<VHit, VHit>> ELSE <<<<"e","v","i","l">>>>]

\* reads of two URLs against upstream answers with such headers, with two
\* credentials donated so that a 401 moves the selection to the other one
HeaderRequests ==
    {Request(KeyCPadded, m, PathUser, raw, << >>) : m \in {"GET", "HEAD"}, raw \in {<< >>, <<"a">>}}
HeaderAnswers ==
    {Answer(200, HdrAllStripped, <<"1">>),
     Answer(200, HdrProxyNames, <<"2">>),
     Answer(401, HdrProxyNames, JsonError(BadCredentials))}

InitHeaders ==
    /\ now = 0
    /\ api_keys = [h \in {sha256Hex(KeyC)} |-> InitKeys[h]]
    /\ buckets = << >>
    /\ hist = << >>
    /\ resp = Reject(0)
    /\ InitLog
    /\ cache = New(0, 1)
    /\ cached_responses = {}
    /\ nextId = 1
    /\ putLog = << >>
    /\ trimmed = {}
    /\ cfg = [MaxProxyBodyBytes |-> 2]
    /\ reqs = [r \in Slots |-> Idle]
    /\ arrived = 0
    /\ refused = NoRequest
    /\ donated_tokens = {TokenRow(1, Login1, Secret1, FALSE, At(0)),
                         TokenRow(2, Login2, Secret2, FALSE, At(1))}
    /\ token_rate_limits = {}
    /\ pending = {}
    /\ sent = NoCall

NextHeaders == Serve(HeaderRequests, HeaderAnswers)

SpecHeaders == InitHeaders /\ [][NextHeaders]_vars

\* the paths and queries that tell the categories apart: each pattern alone,
\* two patterns in one URL, a pattern in the query, /search without its slash
PathSearchCode == <<"s","e","a","r","c","h","/","c","o","d","e">>
PathSearchIssues == <<"s","e","a","r","c","h","/","i","s","s","u","e","s">>
PathSearch == <<"s","e","a","r","c","h">>
CategoryPaths ==
    {PathUser, PathGraphql, PathSearchCode, PathSearchIssues, PathSearch,
     PathSearchCode \o <<"/">> \o PathGraphql,
     PathSearchIssues \o <<"/">> \o PathSearchCode,
     PathUser \o <<"/">> \o PathSearchCode \o <<"x">>}
CategoryRequests ==
    {Request(KeyCPadded, "GET", rest, << >>, << >>) : rest \in CategoryPaths}
    \cup {Request(KeyCPadded, "GET", PathUser, <<"q","=">> \o SlashGraphql, << >>),
          Request(KeyCPadded, "POST", PathGraphql, << >>, <<"q">>)}

\* two credentials; the first has quota left for core and code_search, the
\* second for graphql and search
CategorySnapshots ==
    {[token_id |-> id, category |-> c,
      remaining |-> IF (id = 1) = (c \in {"core", "code_search"}) THEN 1 ELSE 0,
      reset |-> 2] : id \in {1, 2}, c \in {"core", "code_search", "graphql", "search"}}

InitCategory ==
    /\ now = 0
    /\ api_keys = [h \in {sha256Hex(KeyC)} |-> InitKeys[h]]
    /\ buckets = << >>
    /\ hist = << >>
    /\ resp = Reject(0)
    /\ InitLog
    /\ cache = New(0, 1)
    /\ cached_responses = {}
    /\ nextId = 1
    /\ putLog = << >>
    /\ trimmed = {}
    /\ cfg = [MaxProxyBodyBytes |-> 2]
    /\ reqs = [r \in Slots |-> Idle]
    /\ arrived = 0
    /\ refused = NoRequest
    /\ donated_tokens = {TokenRow(1, Login1, Secret1, FALSE, At(0)),
                         TokenRow(2, Login2, Secret2, FALSE, At(1))}
    /\ token_rate_limits = CategorySnapshots
    /\ pending = {}
    /\ sent = NoCall

NextCategory == Serve(CategoryRequests, AuthAnswers)

SpecCategory == InitCategory /\ [][NextCategory]_vars

\* the pipeline with a store whose queries may fail
OutageRequests ==
    {Request(KeyCPadded, "GET", PathUser, << >>, << >>),
     Request(KeyCPadded, "POST", PathGraphql, << >>, <<"q">>),
     Request(KeyCPadded, "POST", PathGraphql, << >>, BodyOverCap)}

NextOutage ==
    \/ Tick
    \/ Serve(OutageRequests, AuthAnswers)
    \/ \E r \in Slots :
          \/ \E q \in OutageRequests : ServeAuthOutage(r, q)
          \/ ServeLookupOutage(r)
          \/ ServeFetchOutage(r)

SpecOutage == InitPipeline({KeyC}) /\ [][NextOutage]_vars

(***************************** the pool alone ******************************)
\* refreshRate for the goroutine g with the answer rr of /rate_limit, a map
\* from categories to [remaining, reset]: one upsert per category, then
\* last_ok_at = now()
Upsert(limits, id, rr) ==
    {s \in limits : ~(s.token_id = id /\ s.category \in DOMAIN rr)}
    \cup {[token_id |-> id, category |-> k, remaining |-> rr[k].remaining,
           reset |-> rr[k].reset] : k \in DOMAIN rr}

refreshRate(g, rr) ==
    /\ g \in pending
    /\ pending' = pending \ {g}
    /\ token_rate_limits' = Upsert(token_rate_limits, g.id, rr)
    /\ donated_tokens' = {IF row.id = g.id THEN [row EXCEPT !.last_ok_at = At(now)] ELSE row :
                             row \in donated_tokens}
    /\ UNCHANGED <<now, limVars, resp, logVars, cacheVars, pipeVars, sent, hubVars>>

\* refreshRate when the call of /rate_limit fails: nothing is written
refreshRateFails(g) ==
    /\ g \in pending
    /\ pending' = pending \ {g}
    /\ UNCHANGED <<now, limVars, resp, logVars, cacheVars, pipeVars, donated_tokens,
                   token_rate_limits, sent, hubVars>>

\* an INSERT without the conflict clause on a table without the constraint
DonateInsertOnly(tokens, login, secret, t) ==
    tokens \cup {TokenRow(Cardinality(tokens) + 1, login, secret, FALSE, At(t))}

\* handleGitHubCallback's INSERT ... ON CONFLICT (github_user) DO UPDATE for
\* the login and the access token the OAuth exchange returned
Donate(tokens, login, secret, t) ==
    IF \E row \in tokens : row.github_user = login
    THEN {IF row.github_user = login
          THEN [row EXCEPT !.token = secret, !.revoked = FALSE, !.last_ok_at = At(t)]
          ELSE row : row \in tokens}
    ELSE tokens \cup {TokenRow(Cardinality(tokens) + 1, login, secret, FALSE, At(t))}

handleGitHubCallback(login, secret) ==
    /\ login # << >>
    /\ donated_tokens' = Donate(donated_tokens, login, secret, now)
    /\ donated_tokens' # donated_tokens
    /\ UNCHANGED <<now, limVars, resp, logVars, cacheVars, pipeVars, token_rate_limits, pending, sent, hubVars>>

\* one call of Client.Do on behalf of a request
PoolDo(method, url, body, o) ==
    /\ arrived < MaxReqs
    /\ arrived' = arrived + 1
    /\ \E list \in QueryTokens(donated_tokens) :
       \E d \in {Do(list, token_rate_limits, method, url, body, o)} :
          DoEffects(d, method, url, body)
    /\ UNCHANGED <<now, limVars, resp, logVars, cacheVars, cfg, reqs, refused, token_rate_limits, hubVars>>

UrlGraphql == ApiBase \o PathGraphql

\* the snapshots a credential may have for a category
SnapValues == {[remaining |-> m, reset |-> t] : m \in 0..MaxRemaining, t \in 1..2}
SnapRows(id, category) ==
    {{}} \cup {{[token_id |-> id, category |-> category, remaining |-> v.remaining,
                 reset |-> v.reset]} : v \in SnapValues}

PoolAnswers ==
    {Answer(200, NoHeader, <<"1">>),
     Answer(401, NoHeader, JsonError(BadCredentials)),
     Answer(403, NoHeader, JsonError(<<"B","a","d"," ","C","r","e","d","e","n","t","i","a","l","s",".">>)),
     Answer(403, NoHeader, JsonError(<<"q","u","o","t","a">>))}

\* two credentials donated, with any snapshots for core, and one for graphql
InitPoolAlone ==
    /\ now = 0
    /\ api_keys = << >>
    /\ buckets = << >>
    /\ hist = << >>
    /\ resp = Reject(0)
    /\ InitLog
    /\ cache = New(0, 0)
    /\ cached_responses = {}
    /\ nextId = 1
    /\ putLog = << >>
    /\ trimmed = {}
    /\ cfg = [MaxProxyBodyBytes |-> 0]
    /\ reqs = [r \in Slots |-> Idle]
    /\ arrived = 0
    /\ refused = NoRequest
    /\ donated_tokens = {TokenRow(1, Login1, Secret1, FALSE, At(0)),
                         TokenRow(2, Login2, Secret1, FALSE, At(0))}
    /\ \E s1 \in SnapRows(1, "core") : \E s2 \in SnapRows(2, "core") :
       \E g \in {{}, {[token_id |-> 1, category |-> "graphql", remaining |-> MaxRemaining,
                      reset |-> 1]}} :
           token_rate_limits = s1 \cup s2 \cup g
    /\ pending = {}
    /\ sent = NoCall

NextPool ==
    \/ \E login \in {Login1, Login2} : handleGitHubCallback(login, Secret2)
    \/ \E url \in {Url1, UrlGraphql} : \E o \in PoolAnswers : PoolDo("GET", url, << >>, o)

SpecPool == InitPoolAlone /\ [][NextPool]_vars

\* the pipeline at one instant after the first donation, with donations and
\* re-donations by two logins, every kind of upstream answer and the
\* refreshRate goroutines
TextBadCredentials == <<"B","a","d"," ","c","r","e","d","e","n","t","i","a","l","s">>
UpstreamRequests == {Request(KeyCPadded, "GET", PathUser, << >>, << >>)}
UpstreamAnswers ==
    {Answer(200, NoHeader, <<"1">>),
     Answer(401, NoHeader, JsonError(BadCredentials)),
     Answer(403, NoHeader, JsonError(TextBadCredentials)),
     Answer(403, NoHeader, JsonError(<<"q","u","o","t","a">>)),
     Answer(403, NoHeader, TextBadCredentials),
     Answer(500, NoHeader, <<"5">>),
     TransportError}
RateAnswers ==
    {[k \in {} |-> 0], [k \in {"core"} |-> [remaining |-> MaxRemaining, reset |-> 1]],
     [k \in {"core"} |-> [remaining |-> 0, reset |-> 2]]}

InitUpstream ==
    /\ now = 1
    /\ api_keys = [h \in {sha256Hex(KeyC)} |-> InitKeys[h]]
    /\ buckets = << >>
    /\ hist = << >>
    /\ resp = Reject(0)
    /\ InitLog
    /\ cache = New(1, 1)
    /\ cached_responses = {}
    /\ nextId = 1
    /\ putLog = << >>
    /\ trimmed = {}
    /\ cfg = [MaxProxyBodyBytes |-> 2]
    /\ reqs = [r \in Slots |-> Idle]
    /\ arrived = 0
    /\ refused = NoRequest
    /\ donated_tokens = {TokenRow(1, Login1, Secret1, FALSE, At(0))}
    /\ token_rate_limits = {}
    /\ pending = {}
    /\ sent = NoCall

NextUpstream ==
    \/ \E g \in pending : (\E rr \in RateAnswers : refreshRate(g, rr)) \/ refreshRateFails(g)
    \/ \E login \in {Login1, Login2} : handleGitHubCallback(login, Secret2)
    \/ Serve(UpstreamRequests, UpstreamAnswers)

SpecUpstream == InitUpstream /\ [][NextUpstream]_vars

(***************************** cache claims ********************************)
GetNow(q) == Get(cached_responses, q.method, q.url, q.body, now)
SameRequest(p, q) == p.method = q.method /\ p.url = q.url /\ p.body = q.body
HitOf(p) == [status |-> p.status, headers |-> p.headers, resp |-> p.resp, ok |-> TRUE]

\* C4: at every instant, the row a get selects has no expiry or an expiry
\* strictly after that instant, whatever puts, sweeps and clock advances
\* came before; without such a row the get is a miss.
C4_GetNeverReturnsExpired ==
    \A q \in CacheReqs :
        /\ \A r \in GetRow(cached_responses, q.method, q.url, q.body, now) :
               r.expires_at = NULL \/ \E e \in r.expires_at : e > now
        /\ GetNow(q).ok =>
               \E r \in cached_responses :
                   /\ SameRequest([method |-> r.method, url |-> r.url, body |-> r.req_body], q)
                   /\ (r.expires_at = NULL \/ \E e \in r.expires_at : e > now)
                   /\ GetNow(q) = [status |-> r.status, headers |-> r.resp_headers,
                                   resp |-> r.resp_body, ok |-> TRUE]

\* a row whose expiry is exactly the instant of the get: a miss
C4_Witness ==
    \E r \in cached_responses :
        /\ r.expires_at = At(now)
        /\ ~GetNow([method |-> r.method, url |-> r.url, body |-> r.req_body]).ok

\* C5: with a positive TTL, a get issued within the TTL of the latest put for
\* its fingerprint, whose row no size-cap sweep has deleted, is a hit carrying
\* exactly the status, headers and body of that put, whatever was put for
\* other fingerprints.
C5_RoundTrip ==
    \A n \in 1..Len(putLog) :
        LET p == putLog[n]
        IN (/\ cache.maxAge > 0
            /\ now < p.at + cache.maxAge
            /\ p.id \notin trimmed
            /\ \A m \in (n + 1)..Len(putLog) : ~SameRequest(putLog[m], p))
           => GetNow(p) = HitOf(p)

\* MaxRows distinct fingerprints with different responses, all hit within the TTL
C5_Witness ==
    /\ Len(putLog) >= 2
    /\ now > putLog[1].at
    /\ ~SameRequest(putLog[1], putLog[2])
    /\ putLog[1].resp # putLog[2].resp
    /\ \A n \in 1..2 : GetNow(putLog[n]) = HitOf(putLog[n])
    /\ cache.maxAge > 0

\* C6: every row carries the expiry put-instant + TTL when the TTL is
\* positive and no expiry when it is zero; with TTL zero, at every instant a
\* get for a stored row's fingerprint is a hit, and it carries that row when
\* the row is the newest of its fingerprint.
C6_ExpiryFromTTL ==
    \A r \in cached_responses :
        LET q == [method |-> r.method, url |-> r.url, body |-> r.req_body]
        IN /\ \E n \in 1..Len(putLog) :
                  /\ putLog[n].id = r.id
                  /\ r.expires_at = (IF cache.maxAge > 0
                                     THEN At(putLog[n].at + cache.maxAge) ELSE NULL)
           /\ cache.maxAge = 0 =>
                  /\ GetNow(q).ok
                  /\ (\A o \in cached_responses : SameRequest(
                          [method |-> o.method, url |-> o.url, body |-> o.req_body], q)
                          => o.id <= r.id)
                     => GetNow(q) = [status |-> r.status, headers |-> r.resp_headers,
                                     resp |-> r.resp_body, ok |-> TRUE]

\* TTL zero: a row put at the start is still a hit when the clock has run out
C6_Witness ==
    /\ cache.maxAge = 0
    /\ now = MaxTime
    /\ \E r \in cached_responses :
           /\ r.created_at = 0 /\ r.expires_at = NULL
           /\ GetNow([method |-> r.method, url |-> r.url, body |-> r.req_body]).ok

(***************************** limiter claims ******************************)
\* the calls i..j of hist made for key h
CallsOf(h, i, j) == {n \in i..j : hist[n].key = h}
AdmittedOf(h, i, j) == {n \in CallsOf(h, i, j) : hist[n].ok}

\* C7: a burst of calls for one key that starts with k whole tokens in the
\* bucket and lasts too short for the refill to complete another whole token
\* admits exactly k of them (all of them when there are fewer than k) and
\* denies the rest, in whatever order the calls take the lock.
C7_BurstAdmitsExactlyK ==
    \A i \in 1..Len(hist) : \A j \in i..Len(hist) :
        LET h == hist[i].key
            k == hist[i].avail \div TicksPerSec
        IN (/\ hist[j].key = h
            /\ hist[i].avail + (hist[j].at - hist[i].at) * hist[i].perSec
                   < (k + 1) * TicksPerSec)
           => Cardinality(AdmittedOf(h, i, j)) = Min(k, Cardinality(CallsOf(h, i, j)))

\* rps = 1, five requests within less than a second: one admitted, four 429
C7_Witness ==
    /\ Len(hist) = 5
    /\ \A n \in 1..5 : hist[n].key = sha256Hex(KeyA) /\ hist[n].perSec = 1
    /\ hist[5].at - hist[1].at < TicksPerSec
    /\ hist[1].ok
    /\ \A n \in 2..5 : ~hist[n].ok

\* C8: for a key with limit R, the calls admitted in any window of length
\* T >= 1/R number at most ceil(R*T) + R.
C8_WindowBound ==
    \A i \in 1..Len(hist) : \A j \in i..Len(hist) :
        LET h == hist[i].key
            R == hist[i].perSec
            RT == Max(R * (hist[j].at - hist[i].at), TicksPerSec)
        IN (hist[j].key = h)
           => Cardinality(AdmittedOf(h, i, j))
                  <= ((RT + TicksPerSec - 1) \div TicksPerSec) + R

\* a full bucket and a refill are both spent inside one window
C8_Witness ==
    \E i \in 1..Len(hist) : \E j \in i..Len(hist) :
        /\ hist[i].perSec = 2 /\ hist[j].key = hist[i].key
        /\ hist[j].at - hist[i].at = TicksPerSec
        /\ Cardinality(AdmittedOf(hist[i].key, i, j)) = 4

\* C9: a request whose key is looked up with perSec <= 0 (a row with limit 0,
\* or no row) is denied with 429 and leaves the bucket map as it was; a
\* request of a disabled key is answered 403 and leaves the bucket map as it
\* was; so every bucket belongs to a key that has a row with a positive limit
\* and that called Allow with that limit.
C9_Denied(k) ==
    LET row == LookupKey(api_keys, sha256Hex(parseAPIKey(k)))
    IN (LimiterCall(k) /\ (row.disabled \/ row.perSec <= 0))
       => /\ buckets' = buckets
          /\ resp'.status = (IF row.disabled THEN 403 ELSE 429)

C9_BucketsOnlyForPositive ==
    \A h \in DOMAIN buckets :
        /\ h \in DOMAIN api_keys
        /\ api_keys[h].rate_limit_per_sec > 0
        /\ \E n \in 1..Len(hist) : hist[n].key = h /\ hist[n].perSec > 0

C9_NonPositiveNeverAdmitted ==
    /\ [] C9_BucketsOnlyForPositive
    /\ [][\A k \in LimKeys : C9_Denied(k)]_vars

\* a key without a positive limit was denied and no bucket exists
C9_Witness == resp.status = 429 /\ buckets = << >> /\ hist = << >>

(***************************** pool claims *********************************)
\* the step in which the request in slot r leaves the stage pc
Leaves(r, pc) == reqs[r].pc = pc /\ reqs'[r].pc # pc

\* the credentials a selection can return, and what the selection reads for
\* one of them: its snapshot for the category, or remaining 0 and the epoch
Usable == {row \in donated_tokens : ~row.revoked}
HasSnapshot(id, cat) == \E s \in token_rate_limits : s.token_id = id /\ s.category = cat
SnapOf(id, cat) == CHOOSE s \in token_rate_limits : s.token_id = id /\ s.category = cat
RemainingOf(id, cat) == IF HasSnapshot(id, cat) THEN SnapOf(id, cat).remaining ELSE 0
ResetOf(id, cat) == IF HasSnapshot(id, cat) THEN SnapOf(id, cat).reset ELSE Epoch

\* the step in which Do selects a credential and calls upstream with it
Selects == arrived' = arrived + 1 /\ Usable # {}

\* C15: the credential a call is made with is a non-revoked one whose
\* remaining count for the category of the URL is the highest among the
\* non-revoked ones, with the earliest reset among those of that count; and
\* the selection is the same when the snapshots of other categories and of
\* revoked credentials are taken away.
C15_SelectsBest ==
    /\ [][Selects =>
            LET c == sent'.id
                cat == categoryFor(sent'.url)
            IN /\ \E row \in Usable : row.id = c /\ row.token = sent'.token
               /\ \A row \in Usable :
                     /\ RemainingOf(row.id, cat) <= RemainingOf(c, cat)
                     /\ RemainingOf(row.id, cat) = RemainingOf(c, cat)
                            => ResetOf(c, cat) <= ResetOf(row.id, cat)]_vars
    /\ [] (\A cat \in {"core", "graphql"} : \A list \in QueryTokens(donated_tokens) :
              chooseToken(list, token_rate_limits, cat)
                  = chooseToken(list, {s \in token_rate_limits :
                                          /\ s.category = cat
                                          /\ \E row \in Usable : row.id = s.token_id}, cat))

\* two usable credentials with the same remaining count for core; the call
\* went out with the second, whose reset is the earlier
C15_Witness ==
    /\ arrived = 1
    /\ Cardinality(Usable) = 2
    /\ sent.id = 2 /\ categoryFor(sent.url) = "core"
    /\ RemainingOf(1, "core") = MaxRemaining /\ RemainingOf(2, "core") = MaxRemaining
    /\ ResetOf(2, "core") < ResetOf(1, "core")
    /\ HasSnapshot(1, "graphql")

\* the statement of C16 as the spec has it: a credential without a snapshot
\* for the category is selected only when no usable credential has one
C16_MissingBehindAll ==
    [][Selects =>
          LET cat == categoryFor(sent'.url)
          IN (\E row \in Usable : HasSnapshot(row.id, cat)) => HasSnapshot(sent'.id, cat)]_vars

\* C16: a credential without a snapshot for the category is read as remaining
\* 0 with a reset before every instant: it is selected behind every usable
\* credential whose snapshot has remaining > 0, and ahead of every usable
\* credential whose snapshot has remaining = 0.
C16_MissingBehindPositive ==
    [][Selects =>
          LET cat == categoryFor(sent'.url)
              missing == {row \in Usable : ~HasSnapshot(row.id, cat)}
          IN /\ (\E row \in Usable : RemainingOf(row.id, cat) > 0)
                    => HasSnapshot(sent'.id, cat) /\ RemainingOf(sent'.id, cat) > 0
             /\ ((\A row \in Usable : RemainingOf(row.id, cat) = 0) /\ missing # {})
                    => ~HasSnapshot(sent'.id, cat)]_vars

\* the call went out with the credential that has no snapshot for core while
\* the other has one with remaining 0 and a reset after the epoch
C16_Witness ==
    /\ arrived = 1
    /\ Cardinality(Usable) = 2
    /\ categoryFor(sent.url) = "core"
    /\ \E row \in Usable :
          /\ row.id # sent.id
          /\ HasSnapshot(row.id, "core")
          /\ RemainingOf(row.id, "core") = 0 /\ ResetOf(row.id, "core") > Epoch
    /\ ~HasSnapshot(sent.id, "core")

RevokedIds(tokens) == {row.id : row \in {x \in tokens : x.revoked}}

\* C17: when the upstream call made with a credential is answered 401, the
\* credential is revoked in the same step of Do, so before any later
\* selection; a call is only ever made with a credential that is not revoked
\* at the selection, so with the other one of a pool of two; and a revoked
\* credential stays revoked until its login donates again.
C17_RevokedOn401 ==
    /\ [][\A r \in Slots :
            (Leaves(r, "fetch") /\ resp'.upstream = 1) =>
                /\ sent'.id \in {row.id : row \in Usable}
                /\ sent'.status = 401 => sent'.id \in RevokedIds(donated_tokens')
                /\ (Cardinality(donated_tokens) = 2 /\ Cardinality(Usable) = 1)
                       => \E row \in Usable : sent'.id = row.id /\ sent'.token = row.token]_vars
    /\ [][\A row \in donated_tokens :
            (row.revoked /\ row.id \notin RevokedIds(donated_tokens')) =>
                /\ UNCHANGED <<reqs, arrived, pending, sent, token_rate_limits>>
                /\ \E new \in donated_tokens' :
                      /\ new.id = row.id /\ new.github_user = row.github_user
                      /\ new.last_ok_at = At(now)]_vars

\* the first call went out with credential 1 and was answered 401; the second
\* call went out with credential 2
C17_Witness ==
    /\ arrived = 2
    /\ sent.id = 2
    /\ 1 \in RevokedIds(donated_tokens)
    /\ \E row \in donated_tokens : row.id = 1 /\ row.token = Secret1
    /\ 2 \notin RevokedIds(donated_tokens)
    /\ resp.upstream = 1 /\ resp.status = 200

\* C18: a step marks a credential revoked exactly when it is a call of Do
\* whose upstream answer has status 401, or status 403 and a JSON body whose
\* message, lower-cased, contains "bad credentials"; the credential marked is
\* the one the call was made with, and no other row changes its flag to
\* revoked.
C18_RevokeOnlyOnAuthError ==
    [][LET newly == RevokedIds(donated_tokens') \ RevokedIds(donated_tokens)
           call == \E r \in Slots : Leaves(r, "fetch") /\ resp'.upstream = 1
           auth == \/ sent'.status = 401
                   \/ /\ sent'.status = 403
                      /\ Contains(ToLower(JsonMessage(sent'.reply)), BadCredentials)
       IN /\ newly # {} => call /\ auth /\ newly = {sent'.id}
          /\ (call /\ auth) => sent'.id \in RevokedIds(donated_tokens')
          /\ (call /\ ~auth) => RevokedIds(donated_tokens') = RevokedIds(donated_tokens)]_vars

\* a 403 whose body is not JSON but reads "Bad credentials", and a 403 for an
\* exhausted quota, both answered without a credential being revoked
C18_Witness ==
    /\ arrived = 2
    /\ sent.status = 403
    /\ sent.reply = TextBadCredentials
    /\ RevokedIds(donated_tokens) = {}
    /\ resp = Response(403, "miss", NoHeader, TextBadCredentials, 1)

\* C20: on a miss that upstream answered, the client is sent the status and
\* the body of the upstream answer, whatever the status and whether or not
\* the credential was revoked for it; an answer other than 200 is not written
\* to the cache; for 401 and for a bad-credentials 403 the credential is
\* revoked.
C20_MissForwardsUpstream ==
    [][\A r \in Slots :
        (Leaves(r, "fetch") /\ resp'.upstream = 1 /\ sent'.status # 0) =>
            /\ resp'.status = sent'.status
            /\ resp'.body = sent'.reply
            /\ resp'.cache = "miss"
            /\ sent'.status # 200 => UNCHANGED <<cached_responses, putLog>>
            /\ (\/ sent'.status = 401
                \/ sent'.reply \in {JsonError(BadCredentials), JsonError(TextBadCredentials)}
                   /\ sent'.status = 403)
                   => sent'.id \in RevokedIds(donated_tokens')]_vars

\* a bad-credentials 403 sent on to the client as it came, its credential
\* revoked, the cache empty
C20_Witness ==
    /\ resp = Response(403, "miss", NoHeader, JsonError(TextBadCredentials), 1)
    /\ sent.id \in RevokedIds(donated_tokens)
    /\ cached_responses = {}

\* the step of a donation: the rows change and no request, goroutine or call does
Donates == donated_tokens' # donated_tokens /\ UNCHANGED <<reqs, pending, sent>>

\* C19: no two rows of donated_tokens carry the same login; a donation by a
\* login that has a row changes only that row, which keeps its id, takes the
\* new secret and is not revoked afterwards, so that it is among the
\* credentials a selection returns (C15, C17); a donation by a new login adds
\* one row.
C19_OneRowPerLogin ==
    /\ [] (\A a, b \in donated_tokens : (a.github_user = b.github_user \/ a.id = b.id) => a = b)
    /\ [][Donates =>
            \E new \in donated_tokens' :
               LET old == {row \in donated_tokens : row.github_user = new.github_user}
               IN /\ ~new.revoked
                  /\ new.last_ok_at = At(now)
                  /\ donated_tokens' = (donated_tokens \ old) \cup {new}
                  /\ \A row \in old : new.id = row.id
                  /\ new \in {row \in donated_tokens' : ~row.revoked}]_vars

\* login 1 donated again after its credential was revoked: one row per login,
\* and the next call went out with its new secret
C19_Witness ==
    /\ Cardinality(donated_tokens) = 2
    /\ arrived = 2
    /\ sent.id = 1 /\ sent.token = Secret2
    /\ \E row \in donated_tokens : row.id = 1 /\ row.github_user = Login1 /\ ~row.revoked
    /\ resp.upstream = 1

(***************************** pipeline claims *****************************)
\* the cache writes of earlier misses from which the request q can be served:
\* same method, canonical URL and body, within the TTL, not deleted by a
\* size-cap sweep
Servable(q) ==
    {n \in 1..Len(putLog) :
        /\ putLog[n].method = q.method
        /\ putLog[n].url = fullTarget(q)
        /\ putLog[n].body = ReadBody(cfg, q.body)
        /\ putLog[n].id \notin trimmed
        /\ (cache.maxAge = 0 \/ now < putLog[n].at + cache.maxAge)}

LastOf(S) == CHOOSE n \in S : \A m \in S : m <= n

\* the miss of a GET or HEAD answered 200 by upstream that is written to the
\* cache is recorded with the status, headers and body the client was sent
C1_MissRecorded(r) ==
    (Leaves(r, "fetch") /\ Len(putLog') > Len(putLog)) =>
        LET p == putLog'[Len(putLog')]
        IN /\ reqs[r].q.method \in {"GET", "HEAD"}
           /\ resp' = Response(200, "miss", wHeaderFromJSON(p.headers), p.resp, 1)
           /\ p.method = reqs[r].q.method /\ p.url = fullTarget(reqs[r].q)
           /\ p.body = ReadBody(cfg, reqs[r].q.body)
           /\ p.at = now

\* a repeat that reaches the cache lookup while such a write is servable is
\* answered as a hit with the status and body of the latest of them, with no
\* upstream call
C1_RepeatHits(r) ==
    (Leaves(r, "lookup") /\ ~TooLarge(cfg, reqs[r].q.contentLength)
        /\ Servable(reqs[r].q) # {}) =>
        LET p == putLog[LastOf(Servable(reqs[r].q))]
        IN /\ reqs'[r].pc = "idle"
           /\ resp'.cache = "hit"
           /\ resp'.status = p.status
           /\ resp'.body = p.resp
           /\ resp'.upstream = 0

\* C1: a GET or HEAD with a valid key that upstream answered with 200 and a
\* Cache-Control without no-cache and no-store is written to the cache as it
\* was answered; an identical request (method, canonical URL, body) that is
\* admitted while that write is within its TTL and no size-cap sweep deleted
\* it is answered with X-Gh-Proxy-Cache: hit, the same status and body, and
\* without an upstream call.
C1_RepeatIsHit == [][\A r \in Slots : C1_MissRecorded(r) /\ C1_RepeatHits(r)]_vars

\* a miss, then the same request answered as a hit with the body of the miss
C1_Witness ==
    /\ Len(putLog) = 1
    /\ cached_responses # {}
    /\ resp = Response(200, "hit", wHeaderFromJSON(putLog[1].headers), putLog[1].resp, 0)
    /\ arrived = 2

\* C2: a request whose method is neither GET nor HEAD never reads the cache
\* (its lookup stage always goes on to upstream, unless the body bound answers
\* 413) and never writes it (its fetch stage leaves the cache as it was, and
\* no row ever carries such a method); each one that upstream answers gets a
\* response marked miss after one upstream call.
C2_OtherMethodsBypass ==
    /\ [] (\A row \in cached_responses : row.method \in {"GET", "HEAD"})
    /\ [][\A r \in Slots :
            (/\ reqs[r].pc \in {"lookup", "fetch"}
             /\ reqs[r].q.method \notin {"GET", "HEAD"}
             /\ reqs'[r] # reqs[r]) =>
                /\ UNCHANGED <<cached_responses, putLog>>
                /\ (Leaves(r, "lookup") /\ ~TooLarge(cfg, reqs[r].q.contentLength))
                       => reqs'[r].pc = "fetch" /\ UNCHANGED resp
                /\ Leaves(r, "fetch") =>
                       /\ resp'.cache # "hit"
                       /\ resp'.status # 0 => resp'.cache = "miss" /\ resp'.upstream = 1]_vars

\* two POSTs answered from upstream, the second a miss like the first
C2_Witness ==
    /\ arrived = 2
    /\ \A r \in Slots : reqs[r].pc = "idle"
    /\ resp = Response(200, "miss", NoHeader, <<"1">>, 1)
    /\ cached_responses = {} /\ putLog = << >>
    /\ buckets # << >> /\ \E h \in DOMAIN buckets : buckets[h].tokens = 0

\* C3: the fetch stage adds a row to the cache exactly when the method is GET
\* or HEAD, the upstream status is 200 and the lower-cased Cache-Control of the
\* answer contains neither no-cache nor no-store; otherwise it leaves the
\* cache unchanged, and no other stage of the pipeline writes the cache; a
\* repeat that finds no servable row goes to upstream again.
C3_StoreIff ==
    [][\A r \in Slots :
        /\ Leaves(r, "fetch") =>
              LET cc == ToLower(HeaderGet(resp'.headers, HCacheControl))
                  stores == /\ reqs[r].q.method \in {"GET", "HEAD"}
                            /\ resp'.status = 200
                            /\ ~Contains(cc, NoCache)
                            /\ ~Contains(cc, NoStore)
              IN /\ stores <=> Len(putLog') = Len(putLog) + 1
                 /\ stores => \E row \in cached_responses' :
                                  /\ cached_responses' = cached_responses \cup {row}
                                  /\ row.id = nextId
                                  /\ row.status = 200
                                  /\ row.resp_body = resp'.body
                 /\ ~stores => UNCHANGED <<cached_responses, putLog>>
        /\ (reqs[r].pc \in {"idle", "limit", "lookup"} /\ reqs'[r] # reqs[r])
              => UNCHANGED <<cached_responses, putLog>>
        /\ (Leaves(r, "lookup") /\ ~TooLarge(cfg, reqs[r].q.contentLength)
              /\ GetRow(cached_responses, reqs[r].q.method, fullTarget(reqs[r].q),
                        ReadBody(cfg, reqs[r].q.body), now) = {})
              => reqs'[r].pc = "fetch"]_vars

\* a GET answered 200 with Cache-Control: no-store twice, the cache still empty
C3_Witness ==
    /\ arrived = 2
    /\ \A r \in Slots : reqs[r].pc = "idle"
    /\ resp = Response(200, "miss", CC(VNoStore), <<"2">>, 1)
    /\ cached_responses = {} /\ putLog = << >>
    /\ \E h \in DOMAIN buckets : buckets[h].tokens = 0

\* C10: a request with a non-empty key whose hash has no row in the key store
\* is answered with status 403.
C10_UnknownKey403 ==
    [][\A r \in Slots :
        (/\ reqs[r].pc # "idle"
         /\ apiKeyHash(reqs[r].q) \notin DOMAIN api_keys
         /\ reqs'[r].pc = "idle") => resp'.status = 403]_vars

\* what the code does with such a key: it passes the disabled check and the
\* limiter, called with a rate of 0, denies it with 429
C10_UnknownKey429 ==
    [][\A r \in Slots :
        (/\ reqs[r].pc # "idle"
         /\ apiKeyHash(reqs[r].q) \notin DOMAIN api_keys
         /\ reqs'[r].pc = "idle") => resp' = Reject(429) /\ UNCHANGED buckets]_vars

\* the step in which a request arrives, and the request that arrives in it:
\* the key check refuses it or it takes a slot
Arrives == arrived' = arrived + 1
Arriving ==
    IF reqs' = reqs THEN refused'
    ELSE reqs'[CHOOSE r \in Slots : reqs'[r] # reqs[r]].q

\* C11: a disabled key stays disabled, and every request that arrives with a
\* key whose row is disabled is answered 403 at the key check: it takes no
\* slot, so no stage that could call upstream or read the cache runs for it,
\* and the buckets and the cache are left as they were.
C11_DisabledKeyRejected ==
    /\ [][\A h \in DOMAIN api_keys :
             api_keys[h].disabled => h \in DOMAIN api_keys' /\ api_keys'[h].disabled]_vars
    /\ [][(/\ Arrives
           /\ apiKeyHash(Arriving) \in DOMAIN api_keys
           /\ api_keys[apiKeyHash(Arriving)].disabled)
          => /\ resp' = Reject(403)
             /\ reqs' = reqs
             /\ UNCHANGED <<buckets, cached_responses, putLog>>]_vars

\* a 403 for a key that has tokens left in its bucket, while the cache holds
\* a row that would serve the request
C11_Witness ==
    /\ resp = Reject(403)
    /\ refused # NoRequest
    /\ apiKeyHash(refused) \in DOMAIN buckets
    /\ buckets[apiKeyHash(refused)].tokens >= TicksPerSec
    /\ Servable(refused) # {}
    /\ GetRow(cached_responses, refused.method, fullTarget(refused),
              ReadBody(cfg, refused.body), now) # {}

\* what a request refused by the pipeline leaves alone: the cache, the
\* credentials and their snapshots, the goroutines, the record of upstream calls
RefusedFrame ==
    UNCHANGED <<cached_responses, putLog, nextId, donated_tokens, token_rate_limits,
                pending, sent>>

\* the tokens Allow finds in the bucket of the request in slot r, in units of
\* 1/TicksPerSec token: the capacity without a bucket, else the refilled count
TokensFor(r) ==
    LET h == apiKeyHash(reqs[r].q)
    IN IF h \in DOMAIN buckets
       THEN Min(buckets[h].capacity * TicksPerSec,
                buckets[h].tokens + (now - buckets[h].last) * reqs[r].perSec)
       ELSE reqs[r].perSec * TicksPerSec

\* C12: a request without a key is answered 401, one with a disabled key 403,
\* one the limiter denies 429, one that declares a body beyond the bound 413,
\* each with the bare status also when the cache holds a row for the request;
\* and every step that answers with one of these makes no upstream call,
\* selects no credential and writes nothing to the cache.
C12_RejectionsTouchNothing ==
    /\ [][Arrives =>
            /\ parseAPIKey(Arriving.key) = << >>
                  => resp' = Reject(401) /\ reqs' = reqs /\ RefusedFrame
            /\ (/\ parseAPIKey(Arriving.key) # << >>
                /\ apiKeyHash(Arriving) \in DOMAIN api_keys
                /\ api_keys[apiKeyHash(Arriving)].disabled)
                  => resp' = Reject(403) /\ reqs' = reqs /\ RefusedFrame
            /\ RefusedFrame]_vars
    /\ [][\A r \in Slots :
            /\ Leaves(r, "limit") =>
                  /\ RefusedFrame
                  /\ IF TokensFor(r) < TicksPerSec
                     THEN resp' = Reject(429) /\ reqs'[r] = Idle
                     ELSE reqs'[r].pc = "lookup" /\ resp' = resp
            /\ (/\ Leaves(r, "lookup")
                /\ cfg.MaxProxyBodyBytes > 0
                /\ reqs[r].q.contentLength > cfg.MaxProxyBodyBytes)
                  => resp' = Reject(413) /\ reqs'[r] = Idle /\ RefusedFrame]_vars
    /\ [][(resp' # resp /\ resp'.status \in {401, 403, 413, 429} /\ resp'.cache = "")
            => /\ RefusedFrame
               /\ resp'.upstream = 0
               /\ \A r \in Slots : reqs'[r].pc # "fetch" \/ reqs'[r] = reqs[r]]_vars

\* a 429 for a request whose response is in the cache, within its TTL
C12_Witness ==
    /\ resp = Reject(429)
    /\ arrived = 2
    /\ \E row \in cached_responses :
          /\ row.method = "GET" /\ row.url = Url1 /\ row.req_body = << >>
          /\ (row.expires_at = NULL \/ \E e \in row.expires_at : e > now)
    /\ sent # NoCall /\ Len(putLog) = 1

\* C13: a request whose body is exactly MaxProxyBodyBytes long is not
\* refused for its size, and the upstream call made for it carries the whole
\* body; a request that declares MaxProxyBodyBytes + 1 bytes is answered 413.
C13_BodyBoundary ==
    [][\A r \in Slots :
        LET q == reqs[r].q
        IN /\ (Leaves(r, "lookup") /\ q.contentLength = cfg.MaxProxyBodyBytes
               /\ Len(q.body) = cfg.MaxProxyBodyBytes)
                  => \/ reqs'[r].pc = "fetch" /\ resp' = resp
                     \/ reqs'[r] = Idle /\ resp'.cache = "hit" /\ Servable(q) # {}
           /\ (Leaves(r, "fetch") /\ Len(q.body) = cfg.MaxProxyBodyBytes)
                  => /\ sent'.body = q.body
                     /\ sent'.method = q.method /\ sent'.url = fullTarget(q)
                     /\ resp'.upstream = 1
           /\ (Leaves(r, "lookup") /\ q.contentLength = cfg.MaxProxyBodyBytes + 1)
                  => resp' = Reject(413) /\ reqs'[r] = Idle]_vars

\* a POST of exactly two bytes answered from upstream after a POST that
\* declared three was refused
C13_Witness ==
    /\ arrived = 2
    /\ sent # NoCall
    /\ sent.body = BodyAtCap /\ Len(sent.body) = cfg.MaxProxyBodyBytes
    /\ resp = Response(200, "miss", NoHeader, <<"1">>, 1)
    /\ \E h \in DOMAIN buckets : buckets[h].tokens = 0

\* C14: a request that did not declare a length beyond the bound and whose
\* body turns out longer than MaxProxyBodyBytes when it is read is answered
\* 413, so that no cache lookup and no upstream call is made with a body cut
\* at the bound.
C14_CapViolationIs413 ==
    [][\A r \in Slots :
        (/\ Leaves(r, "lookup")
         /\ cfg.MaxProxyBodyBytes > 0
         /\ reqs[r].q.contentLength <= cfg.MaxProxyBodyBytes
         /\ Len(reqs[r].q.body) > cfg.MaxProxyBodyBytes)
            => resp' = Reject(413) /\ reqs'[r] = Idle]_vars

\* what the code does with a chunked body beyond the bound: the error of the
\* read is dropped, the first MaxProxyBodyBytes bytes are the body of the
\* cache lookup, of the upstream call and of the cache row
C14_TruncatedBodyUsed ==
    [][\A r \in Slots :
        LET q == reqs[r].q
            cut == SubSeq(q.body, 1, cfg.MaxProxyBodyBytes)
        IN (reqs[r].pc \in {"lookup", "fetch"} /\ q.contentLength < 0
               /\ Len(q.body) > cfg.MaxProxyBodyBytes) =>
              /\ Leaves(r, "lookup") =>
                    \/ reqs'[r].pc = "fetch" /\ resp' = resp
                    \/ /\ reqs'[r] = Idle /\ resp'.cache = "hit"
                       /\ Servable([q EXCEPT !.body = cut]) # {}
              /\ Leaves(r, "fetch") =>
                    /\ sent'.body = cut
                    /\ Len(putLog') > Len(putLog) => putLog'[Len(putLog')].body = cut]_vars

(***************************** concurrent misses ***************************)
\* net/http serves every connection on a goroutine of its own: one request
\* more in flight than elsewhere, all for one fingerprint, upstream answering
\* 200 with a body that differs from call to call
RaceSlots == 1..(MaxInflight + 1)
RaceRequest == Request(KeyCPadded, "GET", PathUser, << >>, << >>)
RaceAnswers == {Answer(200, NoHeader, <<"1">>), Answer(200, NoHeader, <<"2">>)}

InitRace ==
    /\ now = 0
    /\ api_keys = [h \in {sha256Hex(KeyC)} |-> InitKeys[h]]
    /\ buckets = << >>
    /\ hist = << >>
    /\ resp = Reject(0)
    /\ InitLog
    /\ \E secs \in {0, 1} : cache = New(secs, 1)
    /\ cached_responses = {}
    /\ nextId = 1
    /\ putLog = << >>
    /\ trimmed = {}
    /\ cfg = [MaxProxyBodyBytes |-> 2]
    /\ reqs = [r \in RaceSlots |-> Idle]
    /\ arrived = 0
    /\ refused = NoRequest
    /\ InitPool

NextRace == Around \/ ServeOn(RaceSlots, {RaceRequest}, RaceAnswers)

SpecRace == InitRace /\ [][NextRace]_vars

(***************************** cache store errors **************************)
\* one fingerprint, upstream answering 200; the queries of cache.Get and the
\* INSERT of cache.Put may fail while the rest of the store answers
NextCacheErr ==
    \/ Around
    \/ Serve({RaceRequest}, RaceAnswers)
    \/ \E r \in Slots : ServeLookupOutage(r)
    \/ \E r \in Slots : \E o \in RaceAnswers : ServeFetchPutFails(r, o)

SpecCacheErr == InitPipeline({KeyC}) /\ [][NextCacheErr]_vars

(***************************** a cancelled request *************************)
\* the client goes away while its request is inside gh.Do: r.Context() is done
\* from here on
CancelRequest(r) ==
    /\ reqs[r].pc = "fetch"
    /\ Goto(r, "cancelled")
    /\ UNCHANGED <<now, limVars, resp, logVars, cacheVars, cfg, arrived, refused, poolVars, hubVars>>

\* an INSERT that goes through though the context is done
PutCtxIgnored(rows, row, done) == rows \cup {row}

\* Cache.Put under the context of the request: c.pool.Exec returns the error
\* of a context that is done and inserts nothing
PutCtx(rows, row, done) == IF done THEN rows ELSE rows \cup {row}

\* serveProxy lines 258-283 under a context that is done.  Either c.http.Do
\* returns the error of the context and Do returns status 0 (atBody false), or
\* the answer's header had arrived, the read of its body is cut short with its
\* error dropped, refreshRate is started under its own context and Do returns
\* the status with the bytes read before the cut.  Every query of serveProxy
\* under the context fails, the INSERTs of cache.Put and logRequest among
\* them, and nothing reaches the client
ServeFetchCancelled(r, o, atBody) ==
    /\ reqs[r].pc = "cancelled"
    /\ \E list \in QueryTokens(donated_tokens) :
       LET q == reqs[r].q
           body == ReadBody(cfg, q.body)
       IN \E d \in {Do(list, token_rate_limits, q.method, fullTarget(q), body, o)} :
          \E n \in 0..Len(d.body) :
          /\ d.calls = 1
          /\ IF atBody
             THEN /\ cached_responses' =
                        IF ShouldStore(q.method, d.status, d.headers)
                        THEN PutCtx(cached_responses,
                                    PutRow(cache, nextId, q.method, fullTarget(q), body, d.status,
                                           MarshalHeader(d.headers), SubSeq(d.body, 1, n), now),
                                    TRUE)
                        ELSE cached_responses
                  /\ pending' = IF d.refresh THEN pending \cup {[id |-> d.id, token |-> d.token]}
                                ELSE pending
                  /\ sent' = [id |-> d.id, token |-> d.token, method |-> q.method,
                              url |-> fullTarget(q), body |-> body, status |-> d.status,
                              reply |-> SubSeq(d.body, 1, n)]
             ELSE /\ n = 0
                  /\ UNCHANGED <<cached_responses, pending, sent>>
          /\ nextId' = IF cached_responses' = cached_responses THEN nextId ELSE nextId + 1
    /\ resp' = Response(0, "", NoHeader, << >>, 1)
    /\ wHeader' = NoHeader
    /\ Done(r)
    /\ UNCHANGED <<now, limVars, cache, putLog, trimmed, cfg, arrived, refused,
                   donated_tokens, token_rate_limits, request_logs, logSeq, totalReq, hubVars>>

NextCancel ==
    \/ Around
    \/ Serve({RaceRequest}, RaceAnswers)
    \/ \E r \in Slots : CancelRequest(r)
    \/ \E r \in Slots : \E o \in RaceAnswers : \E atBody \in BOOLEAN :
          ServeFetchCancelled(r, o, atBody)

SpecCancel == InitPipeline({KeyC}) /\ [][NextCancel]_vars

(***************************** the broadcast hub ***************************)
\* the capacity of a client's send queue and of h.broadcast
ChanCap == 1

NotHub == <<now, limVars, resp, logVars, cacheVars, pipeVars, poolVars>>

\* close(c.send): closing a closed channel panics, and run is over
CloseSend(cl, byDrop) ==
    [cl EXCEPT !.closed = TRUE, !.closes = @ + 1, !.dropped = @ \/ byDrop]

\* handleAdminWS: the upgrade, the client with its queue, and the send on
\* h.register, which waits for run to receive it
handleAdminWS(c) ==
    /\ conns[c].st = "none"
    /\ conns' = [conns EXCEPT ![c].st = "registering"]
    /\ UNCHANGED <<hub, NotHub>>

\* run, case register; the handler goes on and starts the two pumps
hubRegister(c) ==
    /\ hub.pc = "select"
    /\ conns[c].st = "registering"
    /\ hub' = [hub EXCEPT !.clients = @ \cup {c}]
    /\ conns' = [conns EXCEPT ![c].st = "open", ![c].readPump = "read", ![c].writePump = "run"]
    /\ UNCHANGED NotHub

\* readPump: ReadMessage returns an error (the peer went away, or the
\* connection was closed); the deferred send on h.unregister waits for run
readPumpExit(c) ==
    /\ conns[c].readPump = "read"
    /\ conns' = [conns EXCEPT ![c].readPump = "unregister"]
    /\ UNCHANGED <<hub, NotHub>>

\* an unregister that closes the queue without looking at h.clients
ShouldCloseAlways(clients, c) == TRUE

\* run, case unregister: if _, ok := h.clients[c]; ok
ShouldClose(clients, c) == c \in clients

hubUnregister(c) ==
    /\ hub.pc = "select"
    /\ conns[c].readPump = "unregister"
    /\ IF ShouldClose(hub.clients, c)
       THEN /\ hub' = [hub EXCEPT !.clients = @ \ {c},
                                  !.pc = IF conns[c].closed THEN "panic" ELSE @]
            /\ conns' = [conns EXCEPT ![c] = [CloseSend(@, FALSE) EXCEPT !.readPump = "done"]]
       ELSE /\ conns' = [conns EXCEPT ![c].readPump = "done"]
            /\ UNCHANGED hub
    /\ UNCHANGED NotHub

\* run, case broadcast: a message is received and the range over h.clients begins
hubBroadcast ==
    /\ hub.pc = "select"
    /\ hub.broadcast # << >>
    /\ hub' = [hub EXCEPT !.broadcast = Tail(@), !.msg = Head(hub.broadcast),
                          !.todo = hub.clients,
                          !.pc = IF hub.clients = {} THEN "select" ELSE "loop"]
    /\ UNCHANGED <<conns, NotHub>>

\* a send that waits for room in the queue
DeliverBlocking(q) == IF Len(q) < ChanCap THEN "sent" ELSE "block"

\* select { case c.send <- msg: default: ... } on a queue holding q
Deliver(q) == IF Len(q) < ChanCap THEN "sent" ELSE "drop"

\* one turn of the range over h.clients: the message is queued for c, or c is
\* deleted and its queue closed; a send on a closed queue panics
hubDeliver(c) ==
    /\ hub.pc = "loop"
    /\ c \in hub.todo
    /\ Deliver(conns[c].send) # "block"
    /\ LET rest == hub.todo \ {c}
           pc == IF rest = {} THEN "select" ELSE "loop"
       IN IF conns[c].closed
          THEN /\ hub' = [hub EXCEPT !.pc = "panic"]
               /\ conns' = [conns EXCEPT ![c].lateSend = TRUE]
          ELSE IF Deliver(conns[c].send) = "sent"
          THEN /\ hub' = [hub EXCEPT !.todo = rest, !.pc = pc]
               /\ conns' = [conns EXCEPT ![c].send = Append(@, hub.msg)]
          ELSE /\ hub' = [hub EXCEPT !.todo = rest, !.pc = pc, !.clients = @ \ {c}]
               /\ conns' = [conns EXCEPT ![c] = CloseSend(@, TRUE)]
    /\ UNCHANGED NotHub

\* writePump: a message is taken from the queue and written, however late;
\* on the closed and empty queue the pump writes the close message and ends,
\* closing the connection
writePump(c) ==
    /\ conns[c].writePump = "run"
    /\ IF conns[c].send # << >>
       THEN conns' = [conns EXCEPT ![c].send = Tail(@)]
       ELSE /\ conns[c].closed
            /\ conns' = [conns EXCEPT ![c].writePump = "done"]
    /\ UNCHANGED <<hub, NotHub>>

\* broadcastRecent and broadcastStat of afterRequest: the send of the event's
\* JSON on h.broadcast, which waits while the buffer is full
Emit ==
    /\ Len(hub.broadcast) < ChanCap
    /\ hub' = [hub EXCEPT !.broadcast = Append(@, "event")]
    /\ UNCHANGED <<conns, NotHub>>

NextHub ==
    \/ \E c \in Conns : handleAdminWS(c) \/ readPumpExit(c) \/ writePump(c)
    \/ \E c \in Conns : hubRegister(c)
    \/ \E c \in Conns : hubUnregister(c)
    \/ hubBroadcast
    \/ \E c \in Conns : hubDeliver(c)
    \/ Emit

SpecHub == InitPipeline({KeyC}) /\ [][NextHub]_vars

\* run is a goroutine of its own: it takes its turn in the range, and its
\* select takes each case that is ready again and again
SpecHubLive ==
    /\ SpecHub
    /\ WF_vars(\E c \in Conns : hubDeliver(c))
    /\ SF_vars(hubBroadcast)
    /\ \A c \in Conns : SF_vars(hubRegister(c)) /\ SF_vars(hubUnregister(c))

(***************************** a call in flight ****************************)
\* Client.Do lines 85-94: chooseToken and the request sent with the secret it
\* read; the goroutine then waits in c.http.Do with id and token in its locals
DoSend(r) ==
    /\ reqs[r].pc = "fetch"
    /\ \E list \in QueryTokens(donated_tokens) :
          /\ list # << >>
          /\ LET ch == chooseToken(list, token_rate_limits, categoryFor(fullTarget(reqs[r].q)))
             IN reqs' = [reqs EXCEPT ![r] = [pc |-> "inflight", q |-> reqs[r].q,
                                             id |-> ch.id, token |-> ch.token]]
    /\ UNCHANGED <<now, limVars, resp, logVars, cacheVars, cfg, arrived, refused, poolVars, hubVars>>

\* Client.Do lines 95-120 and serveProxy lines 262-283: the answer o to the
\* request in flight, judged and recorded under the id read at line 86
DoReceive(r, o) ==
    /\ reqs[r].pc = "inflight"
    /\ LET q == reqs[r].q
       IN \E d \in {Do(<<[id |-> reqs[r].id, token |-> reqs[r].token]>>, token_rate_limits,
                       q.method, fullTarget(q), ReadBody(cfg, q.body), o)} :
             ServeFetchAnswer(r, d, FALSE)
    /\ Done(r)
    /\ UNCHANGED <<now, limVars, cache, trimmed, cfg, arrived, refused, token_rate_limits, hubVars>>

\* Client.Do line 87 when chooseToken finds no usable credential
ServeFetchNoToken(r) ==
    /\ \A row \in donated_tokens : row.revoked
    /\ ServeFetch(r, TransportError)

InflightAnswers ==
    {Answer(200, NoHeader, <<"1">>),
     Answer(401, NoHeader, JsonError(BadCredentials)),
     Answer(403, NoHeader, JsonError(<<"q","u","o","t","a">>))}

NextInflight ==
    \/ Tick
    \/ \E login \in {Login1, Login2} : handleGitHubCallback(login, Secret2)
    \/ \E r \in Slots :
          \/ \E q \in UpstreamRequests : ServeAuth(r, q)
          \/ ServeLimit(r)
          \/ ServeLookup(r)
          \/ DoSend(r)
          \/ \E o \in InflightAnswers : DoReceive(r, o)
          \/ ServeFetchNoToken(r)

SpecInflight == InitUpstream /\ [][NextInflight]_vars

(***************************** the request log alone ***********************)
\* the rows LogsJanitor keeps below the highest id
LogKeep == 1000

\* MAX(id) of the table, 0 for the empty one; ids come from the sequence, so
\* none is above hi, its last value
RECURSIVE MaxBelow(_, _)
MaxBelow(ids, hi) ==
    IF hi <= 0 \/ hi \in ids THEN Max(hi, 0) ELSE MaxBelow(ids, hi - 1)

MaxLogId(rows, hi) == MaxBelow({r.id : r \in rows}, hi)

\* a pass that also keeps the row with id = max(id) - LogKeep
LogsPruneInclusive(rows, m) ==
    {r \in rows : ~(r.id < Max(m - LogKeep, 0))}

\* the DELETE of LogsJanitor, m being MAX(id): id <= GREATEST(m - 1000, 0)
LogsPrune(rows, m) ==
    {r \in rows : ~(r.id <= Max(m - LogKeep, 0))}

\* one pass of LogsJanitor
LogsJanitor ==
    /\ request_logs' = LogsPrune(request_logs, MaxLogId(request_logs, logSeq))
    /\ UNCHANGED <<now, limVars, resp, cacheVars, pipeVars, poolVars, wHeader, logSeq, totalReq, hubVars>>

\* one request that reaches afterRequest
LogAppend ==
    /\ arrived < MaxReqs
    /\ arrived' = arrived + 1
    /\ \E status \in {200, 404} : \E hit \in BOOLEAN :
           afterRequest(sha256Hex(KeyC), "GET", <<"/","g","h","/">> \o PathUser, status, hit)
    /\ UNCHANGED <<now, limVars, resp, cacheVars, cfg, reqs, refused, poolVars, wHeader, hubVars>>

\* the log after n requests and no pass yet
LogSizes == {0, 1, LogKeep - 1, LogKeep, LogKeep + 1, LogKeep + 2}

InitLogs ==
    \E n \in LogSizes :
        /\ now = 0
        /\ api_keys = << >>
        /\ buckets = << >>
        /\ hist = << >>
        /\ resp = Reject(0)
        /\ wHeader = NoHeader
        /\ request_logs = {LogRow(i, sha256Hex(KeyC), "GET", <<"/","g","h","/">> \o PathUser,
                                  200, i % 2 = 0) : i \in 1..n}
        /\ logSeq = n
        /\ totalReq = n
        /\ InitHub
        /\ cfg = [MaxProxyBodyBytes |-> 0]
        /\ reqs = [r \in Slots |-> Idle]
        /\ arrived = 0
        /\ refused = NoRequest
        /\ InitPool
        /\ cache = New(0, 0)
        /\ cached_responses = {}
        /\ nextId = 1
        /\ putLog = << >>
        /\ trimmed = {}

NextLogs == LogAppend \/ LogsJanitor

SpecLogs == InitLogs /\ [][NextLogs]_vars

(***************************** response header claims **********************)
\* C21: the header of a response written on the hit path or on the miss path
\* has no name that is, in lower case, one of connection, keep-alive,
\* proxy-authenticate, proxy-authorization, te, trailer, transfer-encoding,
\* upgrade, set-cookie, strict-transport-security, public-key-pins,
\* content-length; every other name of the upstream header or of the cached
\* row is copied.
C21_StrippedHeadersNeverCopied ==
    /\ [](\A n \in DOMAIN wHeader \cup DOMAIN resp.headers :
            ToLower(n) \notin HopByHopNames \cup BlockedNames)
    /\ [][\A r \in Slots :
            /\ Leaves(r, "fetch") /\ resp'.status # 0 =>
                  \E o \in HeaderAnswers :
                      /\ sent'.status = o.status /\ sent'.reply = o.body
                      /\ \A n \in DOMAIN o.headers :
                            ToLower(n) \notin HopByHopNames \cup BlockedNames
                               => n \in DOMAIN wHeader'
            /\ Leaves(r, "lookup") /\ reqs'[r] = Idle /\ resp'.status # 413 =>
                  \E row \in cached_responses :
                      /\ row.resp_body = resp'.body
                      /\ \A n \in DOMAIN UnmarshalHeader(row.resp_headers) :
                            ToLower(n) \notin HopByHopNames \cup BlockedNames
                               => n \in DOMAIN wHeader']_vars

\* a hit served from a row whose stored header holds Set-Cookie and the other
\* names: the response has Etag and the proxy's own two headers only
C21_Witness ==
    /\ resp.cache = "hit"
    /\ \E row \in cached_responses :
          /\ row.resp_body = resp.body
          /\ CanonicalKey(<<"s","e","t","-","c","o","o","k","i","e">>)
                \in DOMAIN UnmarshalHeader(row.resp_headers)
          /\ Cardinality(DOMAIN UnmarshalHeader(row.resp_headers)) = 13
    /\ DOMAIN wHeader = {HEtag, XGhProxyCache, XGhProxyCategory}
    /\ Len(putLog) = 1 /\ sent.status = 200

\* the login of the credential an upstream call was sent with
LoginOf(id) == (CHOOSE row \in donated_tokens : row.id = id).github_user

\* C22: a response served from the cache has X-Gh-Proxy-Cache with the one
\* value hit, a response fetched from upstream has it with the one value
\* miss, also when the upstream header or the cached row carries the name;
\* and a miss has X-Gh-Proxy-Donor with the one value that is the login of
\* the credential the upstream call was sent with.
C22_CacheHeaderTellsTheSource ==
    [][\A r \in Slots :
        /\ Leaves(r, "lookup") /\ reqs'[r] = Idle /\ resp'.status # 413 =>
              /\ wHeader'[XGhProxyCache] = <<VHit>>
              /\ resp'.upstream = 0 /\ sent' = sent
        /\ Leaves(r, "fetch") /\ resp'.status # 0 =>
              /\ wHeader'[XGhProxyCache] = <<VMiss>>
              /\ resp'.upstream = 1
              /\ sent'.token = (CHOOSE row \in donated_tokens : row.id = sent'.id).token
              /\ wHeader'[XGhProxyDonor] = <<LoginOf(sent'.id)>>
        /\ (wHeader' # wHeader /\ XGhProxyCache \in DOMAIN wHeader') =>
              IF wHeader'[XGhProxyCache] = <<VHit>>
              THEN \E s \in Slots : Leaves(s, "lookup")
              ELSE \E s \in Slots : Leaves(s, "fetch")]_vars

\* a miss through the second credential, after a 401 revoked the first, for an
\* upstream answer that carries X-Gh-Proxy-Cache: hit and X-Gh-Proxy-Donor
C22_Witness ==
    /\ sent # NoCall /\ sent.id = 2 /\ sent.status = 200
    /\ resp.cache = "miss"
    /\ XGhProxyCache \in DOMAIN resp.headers /\ resp.headers[XGhProxyCache] = <<VHit, VHit>>
    /\ wHeader[XGhProxyCache] = <<VMiss>>
    /\ wHeader[XGhProxyDonor] = <<Login2>>
    /\ \E row \in donated_tokens : row.id = 1 /\ row.revoked

(***************************** category claims *****************************)
\* the category of a URL by the order of the patterns: /graphql, then
\* /search/code, then /search/, else core
CategoryOf(u) ==
    CASE Contains(u, <<"/","g","r","a","p","h","q","l">>) -> "graphql"
      [] ~Contains(u, <<"/","g","r","a","p","h","q","l">>)
         /\ Contains(u, <<"/","s","e","a","r","c","h","/","c","o","d","e">>) -> "code_search"
      [] ~Contains(u, <<"/","g","r","a","p","h","q","l">>)
         /\ ~Contains(u, <<"/","s","e","a","r","c","h","/","c","o","d","e">>)
         /\ Contains(u, <<"/","s","e","a","r","c","h","/">>) -> "search"
      [] OTHER -> "core"

\* C23: for every URL the category Do selects the credential by (categoryFor)
\* and the category reported in X-Gh-Proxy-Category (ghCategory) are both the
\* one given by the order /graphql, /search/code, /search/, core: the upstream
\* call of a miss is sent with a credential that has the most quota left for
\* that category, and the header of a miss or a hit names that category.
C23_CategoryPrecedence ==
    /\ [](\A q \in CategoryRequests :
             /\ categoryFor(fullTarget(q)) = CategoryOf(fullTarget(q))
             /\ ghCategory(fullTarget(q)) = categoryFor(fullTarget(q)))
    /\ [][\A r \in Slots :
            LET u == fullTarget(reqs[r].q)
            IN /\ Leaves(r, "fetch") /\ resp'.status # 0 =>
                     /\ sent'.url = u
                     /\ wHeader'[XGhProxyCategory] = <<CategoryValue(CategoryOf(u))>>
                     /\ \A row \in Usable :
                           RemainingOf(sent'.id, CategoryOf(u)) >= RemainingOf(row.id, CategoryOf(u))
               /\ Leaves(r, "lookup") /\ reqs'[r] = Idle /\ resp'.status # 413 =>
                     wHeader'[XGhProxyCategory] = <<CategoryValue(CategoryOf(u))>>]_vars

\* a URL with /search/code and /graphql, fetched as graphql through the second
\* credential after a /search/code URL went through the first
C23_Witness ==
    /\ sent # NoCall
    /\ sent.url = ApiBase \o PathSearchCode \o <<"/">> \o PathGraphql
    /\ sent.id = 2
    /\ wHeader[XGhProxyCategory] = <<CategoryValue("graphql")>>
    /\ \E row \in request_logs : row.path = <<"/","g","h","/">> \o PathSearchCode
    /\ Cardinality(request_logs) = 2

(***************************** request log claims **************************)
\* the key of the request in slot r has a row that is not disabled
ValidKey(r) ==
    /\ apiKeyHash(reqs[r].q) \in DOMAIN api_keys
    /\ ~api_keys[apiKeyHash(reqs[r].q)].disabled

\* the step adds to the request log exactly one row, for the request in
\* slot r and the response written
LogsResponse(r) ==
    /\ logSeq' = logSeq + 1
    /\ request_logs' = request_logs \cup
          {LogRow(logSeq', apiKeyHash(reqs[r].q), reqs[r].q.method,
                  <<"/","g","h","/">> \o reqs[r].q.rest, resp'.status, resp'.cache = "hit")}

\* C24: every request with a valid key that the pipeline finishes adds to the
\* request log a row with the request's method and path and the status of
\* the response, cache_hit being true exactly for a hit.
C24_EveryRequestLogged ==
    [][\A r \in Slots :
        (reqs[r].pc # "idle" /\ reqs'[r] = Idle /\ ValidKey(r)) => LogsResponse(r)]_vars

\* what the code does: the responses written on the hit path and on the miss
\* path are logged, with their method, path, status and cache_hit; a request
\* answered 429 or 413 and a fetch that ends with status 0 leave no row
C24_WrittenResponsesLogged ==
    [][\A r \in Slots :
        (reqs[r].pc # "idle" /\ reqs'[r] = Idle) =>
            IF resp'.cache \in {"hit", "miss"}
            THEN LogsResponse(r)
            ELSE resp'.status \in {0, 413, 429} /\ UNCHANGED <<request_logs, logSeq>>]_vars

\* the slot r holds a request whose key lookup failed: the key has a row with
\* a positive rate, and the pipeline read perSec = 0
OutageAt(r) ==
    /\ reqs[r].pc # "idle"
    /\ ValidKey(r)
    /\ api_keys[apiKeyHash(reqs[r].q)].rate_limit_per_sec > 0
    /\ reqs[r].perSec = 0

\* C25: a request with a valid key whose store queries fail is not rejected:
\* it passes the limiter and is fetched from upstream as a miss.
C25_OutageServedAsMiss ==
    [][\A r \in Slots :
        /\ (Leaves(r, "limit") /\ OutageAt(r)) => reqs'[r].pc = "lookup"
        /\ (Leaves(r, "fetch") /\ OutageAt(r)) => resp'.upstream = 1]_vars

\* what the code does: the failed key lookup leaves perSec = 0, Allow denies,
\* and the request is answered 429 without reaching the cache or upstream
C25_OutageAnswered429 ==
    [][\A r \in Slots :
        OutageAt(r) /\ reqs'[r] # reqs[r] =>
            /\ reqs[r].pc = "limit"
            /\ resp' = Reject(429) /\ reqs'[r] = Idle
            /\ UNCHANGED <<buckets, cached_responses, sent, request_logs>>]_vars

\* C26: every request that reaches the upstream fetch ends with a response
\* and exactly one new row in the request log, also when no credential is
\* usable or the upstream call fails; in that case nothing is cached.
C26_FetchAlwaysLogged ==
    [][\A r \in Slots :
        Leaves(r, "fetch") =>
            /\ LogsResponse(r)
            /\ resp'.status = 0 => UNCHANGED <<cached_responses, putLog>>]_vars

\* what the code does when Do returns status 0: nothing is cached, and no
\* row is logged, because WriteHeader(0) panics before afterRequest
C26_FailedFetchNotLogged ==
    [][\A r \in Slots :
        (Leaves(r, "fetch") /\ resp'.status = 0) =>
            /\ UNCHANGED <<cached_responses, putLog, request_logs, logSeq>>
            /\ resp'.body = << >> /\ wHeader' = NoHeader]_vars

(***************************** sweeper claims ******************************)
\* the row of id i is in the table with an expiry that has passed
ExpiredRow(i) ==
    \E r \in cached_responses : r.id = i /\ \E e \in r.expires_at : e <= now

\* C27: every cached row whose expiry has passed is eventually deleted by the
\* sweeper, whether or not requests arrive and whatever the size of the table.
C27_ExpiredEventuallyDeleted ==
    \A i \in 1..MaxRows :
        [](ExpiredRow(i) => <>(~\E r \in cached_responses : r.id = i))

\* what the code does: Cleanup looks at the size of the table only; without
\* a cap no sweep deletes a row, expired or not
C27_SweepWithoutCapKeepsExpired ==
    [][cache.maxSizeMB <= 0 => cached_responses \subseteq cached_responses']_vars

\* the rows a step deletes
Deleted == cached_responses \ cached_responses'

\* C28: a sweep that sees the table at or below the cap, or a cap <= 0, leaves
\* the table as it is; a sweep that deletes rows does so under a cap > 0,
\* deletes max(1, floor(n/10)) of the n rows, and every deleted row is no newer
\* by created_at than every row that stays.
C28_SizeCapEviction ==
    /\ [](\A bytes \in {0, SizeLimit(cache), SizeLimit(cache) + 1} :
          \A D \in SUBSET OldestCandidates(cached_responses) :
              Oldest(cached_responses, D) =>
                 LET after == Cleanup(cached_responses, cache, bytes, D)
                 IN IF cache.maxSizeMB <= 0 \/ bytes <= SizeLimit(cache)
                    THEN after = cached_responses
                    ELSE cached_responses # {} =>
                            Cardinality(cached_responses \ after)
                               = Max(1, Cardinality(cached_responses) \div 10))
    /\ [][Deleted # {} =>
            /\ cache.maxSizeMB > 0
            /\ cached_responses' \subseteq cached_responses
            /\ Cardinality(Deleted)
                  = Max(1, Cardinality(cached_responses) \div 10)
            /\ \A d \in Deleted : \A r \in cached_responses' : d.created_at <= r.created_at
            /\ trimmed' = trimmed \cup {d.id : d \in Deleted}]_vars

\* twenty rows of which one sweep deleted two, both of the first tick
C28_Witness ==
    /\ Cardinality(trimmed) = 2
    /\ Cardinality(cached_responses) = 18
    /\ \A r \in cached_responses : r.id \notin trimmed
    /\ \A i \in trimmed : i \div 8 = 0
    /\ nextId = 21


(***************************** log janitor claims **************************)
\* C29: a pass of LogsJanitor deletes exactly the rows with
\* id <= max(id) - 1000: what stays is at most 1000 rows, every one of a
\* higher id than every deleted row, and a table of 1000 rows or fewer
\* loses nothing.
C29_LogCappedAtThousand ==
    /\ [](\E m \in {MaxLogId(request_logs, logSeq)} :
          \E after \in {LogsPrune(request_logs, m)} :
             /\ \A r \in request_logs : r.id <= m
             /\ request_logs # {} => \E r \in request_logs : r.id = m
             /\ Cardinality(after) <= 1000
             /\ after \subseteq request_logs
             /\ request_logs \ after = {r \in request_logs : r.id <= m - 1000}
             /\ \A d \in request_logs \ after : \A k \in after : d.id < k.id
             /\ Cardinality(request_logs) <= 1000 => after = request_logs)
    /\ [][~(request_logs \subseteq request_logs') =>
            /\ request_logs' \subseteq request_logs
            /\ Cardinality(request_logs') <= 1000
            /\ \A d \in request_logs \ request_logs' : \A k \in request_logs' : d.id < k.id]_vars

\* a pass has cut a table of more than 1000 rows down to the 1000 highest ids
C29_Witness ==
    /\ logSeq > 1000
    /\ Cardinality(request_logs) = 1000
    /\ \A r \in request_logs : r.id > logSeq - 1000

(***************************** concurrent miss claims **********************)
\* the inserts for the race's fingerprint whose row is still in the table and
\* not expired, by their place in the order of insertion
RaceLive ==
    {n \in 1..Len(putLog) :
        /\ putLog[n].method = RaceRequest.method
        /\ putLog[n].url = fullTarget(RaceRequest)
        /\ putLog[n].body = RaceRequest.body
        /\ \E r \in cached_responses :
              /\ r.id = putLog[n].id
              /\ (r.expires_at = NULL \/ \E e \in r.expires_at : e > now)}

RaceGet == Get(cached_responses, RaceRequest.method, fullTarget(RaceRequest), RaceRequest.body, now)

\* C30: requests for one fingerprint that miss at the same time each call
\* upstream and each insert a row, the insert never failing; at every instant
\* a get for the fingerprint is a hit carrying the latest insert whose row is
\* in the table and not expired, and a miss when there is none.
C30_DuplicatesNewestWins ==
    /\ [](IF RaceLive = {} THEN ~RaceGet.ok
          ELSE \E n \in RaceLive :
                  /\ \A m \in RaceLive : m <= n
                  /\ RaceGet = [status |-> putLog[n].status, headers |-> putLog[n].headers,
                                resp |-> putLog[n].resp, ok |-> TRUE])
    /\ [][\A r \in RaceSlots :
            Leaves(r, "fetch") =>
               /\ resp'.status = 200 /\ resp'.cache = "miss" /\ resp'.upstream = 1
               /\ Len(putLog') = Len(putLog) + 1
               /\ Cardinality(cached_responses') = Cardinality(cached_responses) + 1
               /\ \E row \in cached_responses' \ cached_responses :
                     /\ row.resp_body = resp'.body
                     /\ \A old \in cached_responses : old.id < row.id]_vars

\* two requests missed at the same time and each inserted its row with its
\* own body; both rows are servable and a get carries the second
C30_Witness ==
    /\ \A r \in RaceSlots : reqs[r].pc = "idle"
    /\ Cardinality(RaceLive) = 2
    /\ \E a \in RaceLive : \E b \in RaceLive :
          /\ a < b
          /\ putLog[a].resp # putLog[b].resp
          /\ RaceGet.ok /\ RaceGet.resp = putLog[b].resp

(***************************** order of the checks *************************)
\* C31: the limiter is not consulted for a request that declares a body
\* beyond the bound: the step that consults it for such a request neither
\* creates a bucket nor takes a token.
C31_BoundBeforeLimiter ==
    [][\A r \in Slots :
        (Leaves(r, "limit") /\ TooLarge(cfg, reqs[r].q.contentLength))
           => buckets' = buckets]_vars

\* what the code does: Allow is called at line 227, the bound is tested at
\* line 230.  A request beyond the bound is first charged a token (or is
\* answered 429 when there is none) and only then answered 413
C31_LimiterBeforeBound ==
    [][\A r \in Slots :
        LET q == reqs[r].q
            h == apiKeyHash(q)
        IN /\ (Leaves(r, "limit") /\ TooLarge(cfg, q.contentLength)) =>
                 /\ h \in DOMAIN buckets'
                 /\ IF TokensFor(r) < TicksPerSec
                    THEN resp' = Reject(429) /\ reqs'[r] = Idle
                    ELSE /\ reqs'[r].pc = "lookup"
                         /\ buckets'[h].tokens = TokensFor(r) - TicksPerSec
           /\ (Leaves(r, "lookup") /\ TooLarge(cfg, q.contentLength)) =>
                 /\ resp' = Reject(413)
                 /\ h \in DOMAIN buckets
                 /\ buckets' = buckets]_vars

(***************************** cache error claims **************************)
\* C32: an admitted request is answered whether or not the cache store
\* answers: its lookup ends in a hit carrying a servable row or, also when the
\* query of the lookup failed, goes on to upstream; and its fetch is answered
\* with the status and body upstream gave, after one upstream call, also when
\* the insert of the row failed.
C32_CacheErrorsNotFatal ==
    [][\A r \in Slots :
        LET q == reqs[r].q
        IN /\ (Leaves(r, "lookup") /\ ~TooLarge(cfg, q.contentLength)) =>
                 \/ reqs'[r].pc = "fetch" /\ resp' = resp
                 \/ /\ reqs'[r] = Idle /\ resp'.cache = "hit"
                    /\ \E n \in Servable(q) :
                          resp'.status = putLog[n].status /\ resp'.body = putLog[n].resp
           /\ Leaves(r, "fetch") =>
                 /\ reqs'[r] = Idle
                 /\ \E o \in RaceAnswers :
                       resp' = Response(o.status, "miss", wHeaderCopy(o.headers), o.body, 1)
                 /\ sent'.url = fullTarget(q)
                 /\ cached_responses \subseteq cached_responses']_vars

\* the second request found its lookup failing though the row of the first
\* was servable, went to upstream, and was answered 200 with the new body
\* though its insert failed: the table still holds the one row of the first
C32_Witness ==
    /\ arrived = 2
    /\ \A r \in Slots : reqs[r].pc = "idle"
    /\ resp = Response(200, "miss", NoHeader, <<"2">>, 1)
    /\ Len(putLog) = 1 /\ putLog[1].resp = <<"1">>
    /\ Servable(RaceRequest) = {1}
    /\ Cardinality(cached_responses) = 1

C34_ProbeAfterEveryCall ==
    [][\A r \in Slots :
        (Leaves(r, "fetch") /\ resp'.upstream = 1 /\ resp'.status # 0)
           => /\ [id |-> sent'.id, token |-> sent'.token] \in pending'
              /\ reqs'[r] = Idle]_vars

\* what the code does: Do returns at line 114, before the go statement of
\* line 119, when it revokes the credential; only the other answered calls
\* start a refreshRate, and a refreshRate writes the snapshots only when its
\* own call of /rate_limit is answered
C34_ProbeUnlessRevoked ==
    [][/\ \A r \in Slots :
            (Leaves(r, "fetch") /\ resp'.upstream = 1 /\ resp'.status # 0)
               => /\ reqs'[r] = Idle
                  /\ pending \subseteq pending'
                  /\ IF shouldRevoke(resp'.status, resp'.body)
                     THEN /\ pending' = pending
                          /\ \E row \in donated_tokens' : row.id = sent'.id /\ row.revoked
                     ELSE [id |-> sent'.id, token |-> sent'.token] \in pending'
       /\ token_rate_limits' # token_rate_limits
            => \E g \in pending : /\ pending' = pending \ {g}
                                  /\ \A s \in token_rate_limits' \ token_rate_limits :
                                        s.token_id = g.id]_vars

(***************************** hub claims **********************************)
\* C35: in its range over the clients run never waits for a queue: a full
\* queue has its client deleted from h.clients and closed in that turn; and
\* every send on h.register, on h.unregister and on h.broadcast is received:
\* a handler waiting to register is registered, a readPump waiting to
\* unregister is let go, and a full h.broadcast has room again.
C35_HubNeverBlocks ==
    /\ [](hub.pc # "panic")
    /\ [](hub.pc = "loop" => \A c \in hub.todo : Deliver(conns[c].send) \in {"sent", "drop"})
    /\ [][\A c \in Conns :
            (hub.pc = "loop" /\ c \in hub.todo /\ c \notin hub'.todo
                /\ Len(conns[c].send) >= ChanCap)
               => /\ c \notin hub'.clients
                  /\ conns'[c].closed /\ conns'[c].send = conns[c].send]_vars
    /\ \A c \in Conns : (conns[c].st = "registering") ~> (c \in hub.clients)
    /\ \A c \in Conns : (conns[c].readPump = "unregister") ~> (conns[c].readPump = "done")
    /\ (Len(hub.broadcast) >= ChanCap) ~> (Len(hub.broadcast) < ChanCap)

\* a client whose queue was full at a broadcast: dropped by run while its
\* readPump is still reading, its queue closed with the messages it held
C35_Witness ==
    \E c \in Conns :
        /\ conns[c].dropped /\ conns[c].closed
        /\ c \notin hub.clients
        /\ conns[c].readPump = "read"
        /\ Len(conns[c].send) = ChanCap
        /\ \E d \in Conns \ {c} : d \in hub.clients

\* C38: the queue of a client is closed at most once and never sent on after
\* it was closed, in whatever order run drops the client for a full queue and
\* receives the unregister of its readPump.
C38_ClosedOnce ==
    /\ [](\A c \in Conns :
            /\ conns[c].closes <= 1
            /\ ~conns[c].lateSend
            /\ conns[c].closed => c \notin hub.clients /\ c \notin hub.todo)
    /\ [][\A c \in Conns :
            /\ conns[c].closed => conns'[c].closed /\ Len(conns'[c].send) <= Len(conns[c].send)
            /\ conns'[c].closes # conns[c].closes => c \in hub.clients]_vars

\* a client dropped for its full queue whose readPump then unregistered: the
\* queue was closed once
C38_Witness ==
    \E c \in Conns :
        /\ conns[c].dropped
        /\ conns[c].readPump = "done"
        /\ conns[c].closes = 1

(***************************** C36 *****************************************)
\* C36: every bucket holds between zero tokens and its capacity in every
\* reachable state; the capacity is the one the bucket was created with and
\* never changes; and a call of Allow lowers a bucket's token count only by
\* one whole token, and only when the refilled bucket held at least one.
C36_Bounded ==
    \A h \in DOMAIN buckets :
        /\ buckets[h].tokens >= 0
        /\ buckets[h].tokens <= buckets[h].capacity * TicksPerSec
        /\ buckets[h].capacity = LookupKey(InitKeys, h).perSec

C36_WholeTokens ==
    \A h \in DOMAIN buckets :
        /\ h \in DOMAIN buckets'
        /\ buckets'[h].capacity = buckets[h].capacity
        /\ buckets'[h].tokens < buckets[h].tokens =>
              /\ hist' # hist
              /\ hist'[Len(hist')].ok
              /\ hist'[Len(hist')].avail >= TicksPerSec
              /\ buckets'[h].tokens = hist'[Len(hist')].avail - TicksPerSec

C36_BucketInvariant == [](C36_Bounded) /\ [][C36_WholeTokens]_vars

\* a drained bucket was left alone for longer than it takes to fill, and the
\* next call of Allow saw exactly its capacity
C36_Witness ==
    \E j \in 2..Len(hist) : \E i \in 1..(j - 1) :
        /\ hist[i].key = hist[j].key
        /\ hist[i].ok
        /\ hist[i].avail = TicksPerSec
        /\ (hist[j].at - hist[i].at) * hist[j].perSec > buckets[hist[j].key].capacity * TicksPerSec
        /\ hist[j].avail = buckets[hist[j].key].capacity * TicksPerSec

(***************************** C37 *****************************************)
\* stats(): totalRequests is s.totalReq, today is SELECT count(*) FROM
\* request_logs WHERE created_at::date = now()::date.  The clock of the model
\* stays within one day, so every row of the table is one of today's.
stats(rows, total) ==
    [totalRequests |-> total, today |-> Cardinality(rows)]

\* C37: the statistics accumulate: every served request increases the
\* reported total of requests and the reported count of today's requests, and
\* neither of the two decreases during a day, whatever the log janitor does
\* in between.
C37_StatsAccumulate ==
    [][LET before == stats(request_logs, totalReq)
           after == stats(request_logs', totalReq')
       IN /\ after.totalRequests >= before.totalRequests
          /\ after.today >= before.today
          /\ totalReq' # totalReq =>
                /\ after.totalRequests > before.totalRequests
                /\ after.today > before.today]_vars

\* the total alone accumulates: it is a counter no pass of the janitor touches
C37_TotalAccumulates ==
    [][LET before == stats(request_logs, totalReq)
           after == stats(request_logs', totalReq')
       IN /\ after.totalRequests >= before.totalRequests
          /\ logSeq' # logSeq => after.totalRequests = before.totalRequests + 1]_vars

(***************************** C39 *****************************************)
\* C39: a credential is marked revoked only in a step that receives an auth
\* failure (401, or 403 with "bad credentials") for a call made with the
\* secret the credential holds at that moment: when the login donates again
\* while a call with the old secret is in flight, the late 401 leaves the
\* refreshed credential usable.
C39_RevokedForCurrentSecret ==
    [][\A row \in donated_tokens : \A new \in donated_tokens' :
          (new.id = row.id /\ ~row.revoked /\ new.revoked) =>
              /\ sent'.id = row.id
              /\ shouldRevoke(sent'.status, sent'.reply)
              /\ sent'.token = row.token]_vars

\* what holds: the credential marked is the row whose id the call read, and
\* the answer to the call was an auth failure
C39_RevokedForItsId ==
    [][\A row \in donated_tokens : \A new \in donated_tokens' :
          (new.id = row.id /\ ~row.revoked /\ new.revoked) =>
              /\ sent'.id = row.id
              /\ shouldRevoke(sent'.status, sent'.reply)
              /\ \E r \in Slots : reqs[r].pc = "inflight" /\ reqs[r].id = row.id]_vars

(***************************** C40 *****************************************)
\* C40: every row of the cache has method GET or HEAD and status 200; a row
\* is never modified after its insertion; rows are added only by a request
\* leaving the fetch of the pipeline, one at a time and under a fresh id, and
\* removed only by a sweep of the cache janitor.
C40_RowOk(row) == (row.method = "GET" \/ row.method = "HEAD") /\ row.status = 200

C40_StepOk ==
    /\ \A row \in cached_responses : \A new \in cached_responses' :
          new.id = row.id => new = row
    /\ \A new \in cached_responses' \ cached_responses :
          /\ new.id = nextId /\ nextId' = nextId + 1
          /\ \E r \in Slots : Leaves(r, "fetch")
          /\ cached_responses \subseteq cached_responses'
    /\ cached_responses \ cached_responses' # {} =>
          /\ trimmed' = trimmed \cup {row.id : row \in cached_responses \ cached_responses'}
          /\ cached_responses' \subseteq cached_responses
          /\ UNCHANGED <<reqs, nextId, putLog, resp, logVars>>

C40_RowsAppendOnly ==
    /\ [](\A row \in cached_responses : C40_RowOk(row))
    /\ [][C40_StepOk]_vars

\* a row was stored and swept, and the next miss stored the response again:
\* the table holds the second row beside the record of the first one's removal
C40_Witness ==
    /\ trimmed = {1}
    /\ \E row \in cached_responses : row.id = 2 /\ row.method = "GET"
    /\ resp.status = 200 /\ resp.cache = "miss"
    /\ arrived = 2
====
